---------------------------- MODULE Spec2Model ----------------------------
(***************************************************************************)
(* A state-machine model of dwm (src/dwm.c, src/config.h): the monitor    *)
(* list, the per-monitor client list and focus stack, tags, layouts and   *)
(* the geometry every handler commits.                                    *)
(*                                                                         *)
(* Representation.  A Client is keyed by its X window id (a positive      *)
(* integer); the NULL client is 0.  A Monitor is keyed by its position in *)
(* the list anchored at monitor_start (monitors are only appended to and  *)
(* removed from the tail).  An unsigned bit mask (tags, tagset) is the    *)
(* set of its bit positions, so & is \cap, | is \cup and ^ is the         *)
(* symmetric difference.  mfact is a float in units of 2^-28. Handlers are pure *)
(* operators from a state record to a state record; each action applies   *)
(* one handler completely.                                                 *)
(***************************************************************************)
EXTENDS Integers, Sequences, FiniteSets, TLC

VARIABLES mons, clients, selmon, scr

vars == <<mons, clients, selmon, scr>>

(***************************************************************************)
(* Bounds of the model.                                                    *)
(***************************************************************************)
\* number of X windows that may ask to be mapped
MaxWin == 2
\* number of distinct Xinerama screens the server may report
MaxScreens == 2
\* number of tag keys (1 << 0 .. 1 << (MaxTagKeys-1)) that are pressed
MaxTagKeys == 2
\* windows in the layout specification
MaxTiled == 3

(***************************************************************************)
(* Program constants (config.h and dwm.c).                                 *)
(***************************************************************************)
borderpx == 1
snap == 32
window_gap == 6
NumTags == 9
nmaster == 1
resizehints == 1
\* mfact = 0.55: the float nearest to 0.55, 9227469 * 2^-24, in units of 2^-28
mfact == 147639504
\* bh = drw->fonts[0]->h + 2; the font height is the server's, 16 here
bh == 18
\* width of unsigned int
UIntBits == 32

NULL == 0

TAGMASK == 0 .. (NumTags - 1)
AllBits == 0 .. (UIntBits - 1)

\* layouts[]: index into the table of config.h; the arrange function of each
LtTile == 0
LtFloat == 1
LtMonocle == 2
LtBstack == 3
LtBstackhoriz == 4
layouts == <<"tile", "NULL", "monocle", "bstack", "bstackhoriz">>

MAX(a, b) == IF a > b THEN a ELSE b
MIN(a, b) == IF a < b THEN a ELSE b
ABS(a) == IF a < 0 THEN -a ELSE a

\* C integer division and remainder (truncation toward zero)
CDiv(a, b) == IF (a >= 0) = (b > 0) THEN ABS(a) \div ABS(b) ELSE -(ABS(a) \div ABS(b))
CRem(a, b) == a - b * CDiv(a, b)

\* a ^ b on bit sets
BitXor(a, b) == (a \ b) \cup (b \ a)

\* the floor of a float product v * f/100, f in hundredths (int = int * float)
(***************************************************************************)
(* Floats.  A float is the integer number of 2^-28 it holds; every float   *)
(* of magnitude 2^-5 .. 4 is such a number, and so is every sum or         *)
(* difference of two of them before it is rounded.  Arithmetic is IEEE     *)
(* single precision, round to nearest even (FLT_EVAL_METHOD 0).            *)
(***************************************************************************)
\* 1.0
FOne == 268435456
\* the double constants 0.1 and 0.9 lie between two floats: the largest
\* float below 0.1 is at most FTenthBelow, the smallest above 0.9 at least
\* FNineTenthsAbove
FTenthBelow == 26843545
FNineTenthsAbove == 241591911

\* the largest power of two p * 2^k that is at most n, for n >= p
RECURSIVE Pow2Below(_, _)
Pow2Below(n, p) == IF p > n \div 2 THEN p ELSE Pow2Below(n, 2 * p)

\* the magnitude a rounded to the 11 significant bits of a half-precision
\* float, ties to even
F32Mag_half(a) ==
    IF a < 2048 THEN a
    ELSE LET u == Pow2Below(a, 1) \div 1024
             q == a \div u
             r == a % u
         IN  IF 2 * r > u \/ (2 * r = u /\ q % 2 = 1) THEN (q + 1) * u ELSE q * u

\* the magnitude a rounded to 24 significant bits, ties to even
F32Mag(a) ==
    IF a < 16777216 THEN a
    ELSE LET u == Pow2Below(a, 1) \div 8388608
             q == a \div u
             r == a % u
         IN  IF 2 * r > u \/ (2 * r = u /\ q % 2 = 1) THEN (q + 1) * u ELSE q * u

\* .f = +0.05 of the setmfact bindings: the float nearest to 0.05
MfactInc == 13421773

\* the float nearest to n
F32(n) == IF n < 0 THEN 0 - F32Mag(0 - n) ELSE F32Mag(n)

\* (int)(v * f) for an int 0 <= v < 2^12 and a float 0 <= f < 2: v converts
\* exactly, the product is rounded to a float and the conversion to an
\* integer truncates, so the result is the integer part of the exact
\* product unless that product lies within half an ulp below the next
\* integer.  The exact product is taken in two 14-bit limbs of f.
FMulRound(whole, rest) ==
    IF FOne - rest <= (IF whole = 0 THEN 8 ELSE 16 * Pow2Below(whole, 1))
    THEN whole + 1 ELSE whole

FMulLimbs(hi, lo) ==
    FMulRound((hi + lo \div 16384) \div 16384,
              ((hi + lo \div 16384) % 16384) * 16384 + (lo % 16384))

FMul(v, f) == FMulLimbs(v * (f \div 16384), v * (f % 16384))

(***************************************************************************)
(* unsigned division as tile/bstack do it: a is an int difference stored   *)
(* in an unsigned, divided by the unsigned k >= 1, then 2*bw is taken off  *)
(* and the result passed as an int.  For a >= 0 no wrap happens.  For      *)
(* a < 0 the dividend is 2^32 + a.                                         *)
(***************************************************************************)
UDivSub(a, k, sub) ==
    IF a >= 0 THEN (a \div k) - sub
    ELSE IF k = 1 THEN a - sub
    ELSE LET P == 1073741824
         IN  4 * (P \div k) + ((4 * (P % k) + a) \div k) - sub

(***************************************************************************)
(* State record helpers.  A state s is                                     *)
(*   [mons, cl, selmon, sw, sh]                                            *)
(***************************************************************************)
\* no loop of movemouse or resizemouse is running; while one runs, which
\* one, and its locals client, ocx, ocy, x_pos and y_pos
NoGrab == [client |-> NULL, ocx |-> 0, ocy |-> 0, x |-> 0, y |-> 0, loop |-> "none"]

St == [mons |-> mons, cl |-> clients, selmon |-> selmon, sw |-> scr.sw, sh |-> scr.sh,
       grab |-> scr.grab, running |-> scr.running, exit |-> scr.exit,
       netclientlist |-> scr.netclientlist]

Managed(s) == DOMAIN s.cl

MonOf(s, c) == s.mons[s.cl[c].mon]

CurTags(m) == m.tagset[m.seltags + 1]

CurLt(m) == m.lt[m.sellt + 1]

\* lt[sellt]->arrange
LtArrange(m) == layouts[CurLt(m) + 1]

ISVISIBLE(s, c) == (s.cl[c].tags \cap CurTags(MonOf(s, c))) # {}

WIDTH(cl) == cl.width + 2 * cl.bw + window_gap
HEIGHT(cl) == cl.height + 2 * cl.bw + window_gap

SetCl(s, c, r) == [s EXCEPT !.cl = [s.cl EXCEPT ![c] = r]]
SetMon(s, i, r) == [s EXCEPT !.mons = [s.mons EXCEPT ![i] = r]]

Remove(seq, c) == SelectSeq(seq, LAMBDA e : e # c)

\* the first element of seq satisfying P, or NULL
RECURSIVE FirstVisible(_, _)
FirstVisible(s, seq) ==
    IF seq = <<>> THEN NULL
    ELSE IF ISVISIBLE(s, Head(seq)) THEN Head(seq)
    ELSE FirstVisible(s, Tail(seq))

(***************************************************************************)
(* attach / detach: the two intrusive lists.                               *)
(***************************************************************************)
attach(s, c) ==
    LET i == s.cl[c].mon
    IN  SetMon(s, i, [s.mons[i] EXCEPT !.clients = <<c>> \o @])

attachstack(s, c) ==
    LET i == s.cl[c].mon
    IN  SetMon(s, i, [s.mons[i] EXCEPT !.stack = <<c>> \o @])

detach(s, c) ==
    LET i == s.cl[c].mon
    IN  SetMon(s, i, [s.mons[i] EXCEPT !.clients = Remove(@, c)])

\* detachstack that leaves selected_client alone
detachstack_keepsel(s, c) ==
    SetMon(s, s.cl[c].mon, [s.mons[s.cl[c].mon] EXCEPT !.stack = Remove(@, c)])

detachstack(s, c) ==
    LET i  == s.cl[c].mon
        s1 == SetMon(s, i, [s.mons[i] EXCEPT !.stack = Remove(@, c)])
    IN  IF s.mons[i].selected_client = c
        THEN SetMon(s1, i, [s1.mons[i] EXCEPT
                 !.selected_client = FirstVisible(s1, s1.mons[i].stack)])
        ELSE s1

\* the clients nexttiled() walks through, in client-list order
nexttiled(s, i) ==
    SelectSeq(s.mons[i].clients,
              LAMBDA c : ~s.cl[c].isfloating /\ ISVISIBLE(s, c))


(***************************************************************************)
(* Size hints and the resize protocol.                                     *)
(***************************************************************************)
\* maxa < (float)w / h, with maxa the rational a[1]/a[2] > 0
AspectBelow(a, w, h) ==
    IF h > 0 THEN a[1] * h < w * a[2]
    ELSE IF h < 0 THEN a[1] * h > w * a[2]
    ELSE w > 0

\* (int)(v * a + 0.5), with a the rational a[1]/a[2]
AspectScale(v, a) == CDiv(2 * v * a[1] + a[2], 2 * a[2])

\* applysizehints, the last step: increments, then minimum and maximum
HintClamp(cl, w, h) ==
    [w |-> IF cl.maxw # 0 THEN MIN(MAX(w + cl.basew, cl.minw), cl.maxw)
           ELSE MAX(w + cl.basew, cl.minw),
     h |-> IF cl.maxh # 0 THEN MIN(MAX(h + cl.baseh, cl.minh), cl.maxh)
           ELSE MAX(h + cl.baseh, cl.minh)]

HintInc(cl, w, h) ==
    HintClamp(cl, IF cl.incw # 0 THEN w - CRem(w, cl.incw) ELSE w,
                  IF cl.inch # 0 THEN h - CRem(h, cl.inch) ELSE h)

\* the base size is taken off after the aspect step when it is the minimum
HintBase(cl, baseismin, w, h) ==
    HintInc(cl, IF baseismin THEN w - cl.basew ELSE w,
                IF baseismin THEN h - cl.baseh ELSE h)

HintAspect(cl, baseismin, w, h) ==
    IF cl.mina[1] > 0 /\ cl.maxa[1] > 0
    THEN IF AspectBelow(cl.maxa, w, h)
         THEN HintBase(cl, baseismin, AspectScale(h, cl.maxa), h)
         ELSE IF AspectBelow(cl.mina, h, w)
         THEN HintBase(cl, baseismin, w, AspectScale(w, cl.mina))
         ELSE HintBase(cl, baseismin, w, h)
    ELSE HintBase(cl, baseismin, w, h)

\* the ICCCM 4.1.2.3 part of applysizehints, w and h already at least bh
HintSize(cl, baseismin, w, h) ==
    HintAspect(cl, baseismin, IF ~baseismin THEN w - cl.basew ELSE w,
                              IF ~baseismin THEN h - cl.baseh ELSE h)

\* the second clamp of the position, then the size
HintRect(cl, m, x, y, w, h, interact) ==
    [x |-> IF interact THEN (IF x + w + 2 * cl.bw < 0 THEN 0 ELSE x)
           ELSE (IF x + w + 2 * cl.bw <= m.window_x THEN m.window_x ELSE x),
     y |-> IF interact THEN (IF y + h + 2 * cl.bw < 0 THEN 0 ELSE y)
           ELSE (IF y + h + 2 * cl.bw <= m.window_y THEN m.window_y ELSE y)]
    @@ (IF resizehints # 0 \/ cl.isfloating \/ LtArrange(m) = "NULL"
        THEN HintSize(cl, cl.basew = cl.minw /\ cl.baseh = cl.minh,
                      MAX(w, bh), MAX(h, bh))
        ELSE [w |-> MAX(w, bh), h |-> MAX(h, bh)])

\* the rectangle applysizehints leaves in *x, *y, *w, *h
sizehints(sw, sh, cl, m, x, y, w, h, interact) ==
    HintRect(cl, m,
        IF interact THEN (IF x > sw THEN sw - WIDTH(cl) ELSE x)
        ELSE (IF x >= m.window_x + m.window_width
              THEN m.window_x + m.window_width - WIDTH(cl) ELSE x),
        IF interact THEN (IF y > sh THEN sh - HEIGHT(cl) ELSE y)
        ELSE (IF y >= m.window_y + m.window_height
              THEN m.window_y + m.window_height - HEIGHT(cl) ELSE y),
        MAX(1, w), MAX(1, h), interact)

\* applysizehints' return value: does the rectangle differ from the client's
WithChanged(r, cl) ==
    r @@ [changed |-> r.x # cl.x_pos \/ r.y # cl.y_pos
                      \/ r.w # cl.width \/ r.h # cl.height]

\* applysizehints: the rectangle and whether it differs from the client's
applysizehints(s, c, x, y, w, h, interact) ==
    WithChanged(sizehints(s.sw, s.sh, s.cl[c], MonOf(s, c), x, y, w, h, interact),
                s.cl[c])

\* the monitor whose layout and tiled count decide the gap policy
GapMon(s, c) == s.selmon

\* the gap policy: 0 none (floating client or null layout), 1 a single
\* tiled client or monocle, 2 several tiled clients
GapCase(s, c) ==
    IF s.cl[c].isfloating \/ LtArrange(s.mons[GapMon(s, c)]) = "NULL" THEN 0
    ELSE IF LtArrange(s.mons[GapMon(s, c)]) = "monocle"
            \/ Len(nexttiled(s, GapMon(s, c))) = 1 THEN 1
    ELSE 2

\* width - gapincr, gapincr unsigned: -2*borderpx wraps, the sum wraps back
GapCommit(s, c, cl, x, y, w, h, gapoffset, gapincr, border) ==
    SetCl(s, c, [cl EXCEPT
            !.oldx = cl.x_pos, !.x_pos = x + gapoffset,
            !.oldy = cl.y_pos, !.y_pos = y + gapoffset,
            !.oldw = cl.width, !.width = w - gapincr,
            !.oldh = cl.height, !.height = h - gapincr,
            !.xbw = border])

\* resizeclient with gapincr = window_gap
GapApply_onegap(s, c, x, y, w, h, gc) ==
    GapCommit(s, c, s.cl[c], x, y, w, h,
              IF gc = 2 THEN window_gap ELSE 0,
              IF gc = 0 THEN 0 ELSE IF gc = 1 THEN -2 * borderpx ELSE window_gap,
              IF gc = 1 THEN 0 ELSE s.cl[c].bw)

GapApply(s, c, x, y, w, h, gc) ==
    GapCommit(s, c, s.cl[c], x, y, w, h,
              IF gc = 2 THEN window_gap ELSE 0,
              IF gc = 0 THEN 0 ELSE IF gc = 1 THEN -2 * borderpx ELSE 2 * window_gap,
              IF gc = 1 THEN 0 ELSE s.cl[c].bw)

\* resizeclient: gap policy, commit, XConfigureWindow
resizeclient(s, c, x, y, w, h) == GapApply(s, c, x, y, w, h, GapCase(s, c))

ResizeTo(s, c, r) ==
    IF r.changed THEN resizeclient(s, c, r.x, r.y, r.w, r.h) ELSE s

resize(s, c, x, y, w, h, interact) ==
    ResizeTo(s, c, applysizehints(s, c, x, y, w, h, interact))

(***************************************************************************)
(* The arrangers.                                                          *)
(***************************************************************************)
\* is the idx-th tiled client (from 1) in the master area
InMaster(m, idx) == idx - 1 < m.nmaster

\* tile: the loop body's resize for the idx-th tiled client
tileResize(s, m, c, n, k, bw2, mw, my, ty) ==
    IF k < m.nmaster
    THEN resize(s, c, m.window_x, m.window_y + my, mw - bw2,
                UDivSub(m.window_height - my, MIN(n, m.nmaster) - k, bw2), FALSE)
    ELSE resize(s, c, m.window_x + mw, m.window_y + ty, m.window_width - mw - bw2,
                UDivSub(m.window_height - ty, n - k, bw2), FALSE)

RECURSIVE tileFrom(_, _, _, _, _, _, _)
\* tile: the step to the next client, my or ty advanced by HEIGHT(c)
tileNext(s1, i, tl, idx, mw, my, ty) ==
    tileFrom(s1, i, tl, idx + 1, mw,
             IF InMaster(s1.mons[i], idx) THEN my + HEIGHT(s1.cl[tl[idx]]) ELSE my,
             IF InMaster(s1.mons[i], idx) THEN ty ELSE ty + HEIGHT(s1.cl[tl[idx]]))

tileFrom(s, i, tl, idx, mw, my, ty) ==
    IF idx > Len(tl) THEN s
    ELSE tileNext(tileResize(s, s.mons[i], tl[idx], Len(tl), idx - 1,
                             2 * s.cl[tl[idx]].bw, mw, my, ty),
                  i, tl, idx, mw, my, ty)

tileStart(s, i, m, tl) ==
    IF Len(tl) = 0 THEN s
    ELSE tileFrom(s, i, tl, 1,
                  IF Len(tl) > m.nmaster
                  THEN (IF m.nmaster # 0 THEN FMul(m.window_width, m.mfact) ELSE 0)
                  ELSE m.window_width,
                  0, 0)

\* tile that adds up the heights the clients had before they were resized
RECURSIVE tileFrom_stale(_, _, _, _, _, _, _)
tileFrom_stale(s, i, tl, idx, mw, my, ty) ==
    IF idx > Len(tl) THEN s
    ELSE tileFrom_stale(tileResize(s, s.mons[i], tl[idx], Len(tl), idx - 1,
                                   2 * s.cl[tl[idx]].bw, mw, my, ty),
                        i, tl, idx + 1, mw,
                        IF InMaster(s.mons[i], idx) THEN my + HEIGHT(s.cl[tl[idx]]) ELSE my,
                        IF InMaster(s.mons[i], idx) THEN ty ELSE ty + HEIGHT(s.cl[tl[idx]]))

tile_stale(s, i) ==
    IF nexttiled(s, i) = <<>> THEN s
    ELSE tileFrom_stale(s, i, nexttiled(s, i), 1,
                        IF Len(nexttiled(s, i)) > s.mons[i].nmaster
                        THEN (IF s.mons[i].nmaster # 0
                              THEN FMul(s.mons[i].window_width, s.mons[i].mfact) ELSE 0)
                        ELSE s.mons[i].window_width,
                        0, 0)

tile(s, i) == tileStart(s, i, s.mons[i], nexttiled(s, i))

monocleResize(s, m, c, bw2) ==
    resize(s, c, m.window_x, m.window_y, m.window_width - bw2, m.window_height - bw2, FALSE)

RECURSIVE monocleFrom(_, _, _, _)
monocleFrom(s, i, tl, idx) ==
    IF idx > Len(tl) THEN s
    ELSE monocleFrom(monocleResize(s, s.mons[i], tl[idx], 2 * s.cl[tl[idx]].bw),
                     i, tl, idx + 1)

monocle(s, i) == monocleFrom(s, i, nexttiled(s, i), 1)

\* bstack: the loop body's resize for the idx-th tiled client
bstackResize(s, m, c, n, k, bw2, mh, tw, ty, mx, tx) ==
    IF k < m.nmaster
    THEN resize(s, c, m.window_x + mx, m.window_y,
                UDivSub(m.window_width - mx, MIN(n, m.nmaster) - k, bw2),
                mh - bw2, FALSE)
    ELSE resize(s, c, tx, ty, tw - bw2, (m.window_height - mh) - bw2, FALSE)

\* bstack: masters in a row across the top, the stack in a row below
RECURSIVE bstackFrom(_, _, _, _, _, _, _, _, _)
\* bstack with tx left where it is
bstackNext_keeptx(s1, i, tl, idx, mh, tw, ty, mx, tx) ==
    bstackFrom(s1, i, tl, idx + 1, mh, tw, ty,
               IF InMaster(s1.mons[i], idx) THEN mx + WIDTH(s1.cl[tl[idx]]) ELSE mx,
               tx)

bstackNext(s1, i, tl, idx, mh, tw, ty, mx, tx) ==
    bstackFrom(s1, i, tl, idx + 1, mh, tw, ty,
               IF InMaster(s1.mons[i], idx) THEN mx + WIDTH(s1.cl[tl[idx]]) ELSE mx,
               IF ~InMaster(s1.mons[i], idx) /\ tw # s1.mons[i].window_width
               THEN tx + WIDTH(s1.cl[tl[idx]]) ELSE tx)

bstackFrom(s, i, tl, idx, mh, tw, ty, mx, tx) ==
    IF idx > Len(tl) THEN s
    ELSE bstackNext(bstackResize(s, s.mons[i], tl[idx], Len(tl), idx - 1,
                                 2 * s.cl[tl[idx]].bw, mh, tw, ty, mx, tx),
                    i, tl, idx, mh, tw, ty, mx, tx)

\* the master area's height in bstack and bstackhoriz
bstackMh(m, n) ==
    IF n > m.nmaster
    THEN (IF m.nmaster # 0 THEN FMul(m.window_height, m.mfact) ELSE 0)
    ELSE m.window_height

bstackStart(s, i, m, tl, mh) ==
    IF Len(tl) = 0 THEN s
    ELSE bstackFrom(s, i, tl, 1, mh,
                    IF Len(tl) > m.nmaster
                    THEN m.window_width \div (Len(tl) - m.nmaster)
                    ELSE m.window_width,
                    IF Len(tl) > m.nmaster THEN m.window_y + mh ELSE m.window_y,
                    0, m.window_x)

bstack(s, i) ==
    bstackStart(s, i, s.mons[i], nexttiled(s, i),
                bstackMh(s.mons[i], Len(nexttiled(s, i))))

\* bstackhoriz: the loop body's resize for the idx-th tiled client
bstackhorizResize(s, m, c, n, k, bw2, mh, th, mx, ty) ==
    IF k < m.nmaster
    THEN resize(s, c, m.window_x + mx, m.window_y,
                UDivSub(m.window_width - mx, MIN(n, m.nmaster) - k, bw2),
                mh - bw2, FALSE)
    ELSE resize(s, c, m.window_x, ty, m.window_width - bw2, th - bw2, FALSE)

\* bstackhoriz: masters in a row across the top, the stack as rows below
RECURSIVE bstackhorizFrom(_, _, _, _, _, _, _, _)
bstackhorizNext(s1, i, tl, idx, mh, th, mx, ty) ==
    bstackhorizFrom(s1, i, tl, idx + 1, mh, th,
                    IF InMaster(s1.mons[i], idx) THEN mx + WIDTH(s1.cl[tl[idx]]) ELSE mx,
                    IF ~InMaster(s1.mons[i], idx) /\ th # s1.mons[i].window_height
                    THEN ty + HEIGHT(s1.cl[tl[idx]]) ELSE ty)

bstackhorizFrom(s, i, tl, idx, mh, th, mx, ty) ==
    IF idx > Len(tl) THEN s
    ELSE bstackhorizNext(bstackhorizResize(s, s.mons[i], tl[idx], Len(tl), idx - 1,
                                           2 * s.cl[tl[idx]].bw, mh, th, mx, ty),
                         i, tl, idx, mh, th, mx, ty)

bstackhorizStart(s, i, m, tl, mh) ==
    IF Len(tl) = 0 THEN s
    ELSE bstackhorizFrom(s, i, tl, 1, mh,
                         IF Len(tl) > m.nmaster
                         THEN (m.window_height - mh) \div (Len(tl) - m.nmaster)
                         ELSE m.window_height,
                         0,
                         IF Len(tl) > m.nmaster THEN m.window_y + mh ELSE m.window_y)

bstackhoriz(s, i) ==
    bstackhorizStart(s, i, s.mons[i], nexttiled(s, i),
                     bstackMh(s.mons[i], Len(nexttiled(s, i))))

\* showhide for one client: a visible floating (or null-layout) client that
\* is not fullscreen is passed through resize; hidden windows are only moved
\* away, which leaves the client record alone
showhide1(s, c, cl) ==
    IF ISVISIBLE(s, c) /\ (LtArrange(MonOf(s, c)) = "NULL" \/ cl.isfloating)
       /\ ~cl.isfullscreen
    THEN resize(s, c, cl.x_pos, cl.y_pos, cl.width, cl.height, FALSE)
    ELSE s

RECURSIVE showhide(_, _)
showhide(s, stk) ==
    IF stk = <<>> THEN s
    ELSE showhide(showhide1(s, Head(stk), s.cl[Head(stk)]), Tail(stk))

arrangemon(s, i) ==
    CASE LtArrange(s.mons[i]) = "tile" -> tile(s, i)
      [] LtArrange(s.mons[i]) = "monocle" -> monocle(s, i)
      [] LtArrange(s.mons[i]) = "bstack" -> bstack(s, i)
      [] LtArrange(s.mons[i]) = "bstackhoriz" -> bstackhoriz(s, i)
      [] OTHER -> s

\* showhide on the monitors lo .. hi
RECURSIVE showhideAll(_, _, _)
showhideAll(s, lo, hi) ==
    IF lo > hi THEN s ELSE showhideAll(showhide(s, s.mons[lo].stack), lo + 1, hi)

\* arrangemon on the monitors lo .. hi
RECURSIVE arrangemonAll(_, _, _)
arrangemonAll(s, lo, hi) ==
    IF lo > hi THEN s ELSE arrangemonAll(arrangemon(s, lo), lo + 1, hi)

\* arrange(monitor); i = NULL arranges every monitor.  restack only talks to X.
arrange(s, i) ==
    arrangemonAll(showhideAll(s, IF i # NULL THEN i ELSE 1,
                                 IF i # NULL THEN i ELSE Len(s.mons)),
                  IF i # NULL THEN i ELSE 1,
                  IF i # NULL THEN i ELSE Len(s.mons))


(***************************************************************************)
(* Monitors: createmon, updatebarpos, recttomon, dirtomon, updategeom.     *)
(***************************************************************************)
createmon ==
    [num |-> 0, bar_y |-> 0,
     mon_x |-> 0, mon_y |-> 0, mon_width |-> 0, mon_height |-> 0,
     window_x |-> 0, window_y |-> 0, window_width |-> 0, window_height |-> 0,
     seltags |-> 0, sellt |-> 0, tagset |-> <<{0}, {0}>>,
     mfact |-> mfact, nmaster |-> nmaster, showbar |-> TRUE, topbar |-> TRUE,
     clients |-> <<>>, selected_client |-> NULL, stack |-> <<>>,
     lt |-> <<LtTile, 1 % Len(layouts)>>]

updatebarpos(m) ==
    IF m.showbar
    THEN [m EXCEPT
            !.window_height = m.mon_height - bh,
            !.bar_y = IF m.topbar THEN m.mon_y ELSE m.mon_y + (m.mon_height - bh),
            !.window_y = IF m.topbar THEN m.mon_y + bh ELSE m.mon_y]
    ELSE [m EXCEPT !.window_y = m.mon_y, !.window_height = m.mon_height, !.bar_y = -bh]

INTERSECT(x, y, w, h, m) ==
    MAX(0, MIN(x + w, m.window_x + m.window_width) - MAX(x, m.window_x))
  * MAX(0, MIN(y + h, m.window_y + m.window_height) - MAX(y, m.window_y))

\* recttomon: the first monitor of largest positive intersection, else selmon
RECURSIVE recttomonFrom(_, _, _, _, _, _, _, _)
recttomonFrom(s, x, y, w, h, i, area, r) ==
    IF i > Len(s.mons) THEN r
    ELSE LET a == INTERSECT(x, y, w, h, s.mons[i])
         IN  IF a > area THEN recttomonFrom(s, x, y, w, h, i + 1, a, i)
             ELSE recttomonFrom(s, x, y, w, h, i + 1, area, r)

recttomon(s, x, y, w, h) == recttomonFrom(s, x, y, w, h, 1, 0, s.selmon)

\* wintomon(root), the pointer at ptr
wintomonroot(s, ptr) == recttomon(s, ptr[1], ptr[2], 1, 1)

\* dirtomon that falls back to the first monitor
dirtomon_first(s, dir) ==
    LET hit == {i \in 1 .. (Len(s.mons) - 1) : s.mons[i].num = dir}
    IN  IF hit # {} THEN CHOOSE i \in hit : \A j \in hit : i <= j ELSE 1

\* dirtomon: the monitor numbered dir among all but the last, else the last
dirtomon(s, dir) ==
    LET hit == {i \in 1 .. (Len(s.mons) - 1) : s.mons[i].num = dir}
    IN  IF hit # {} THEN CHOOSE i \in hit : \A j \in hit : i <= j ELSE Len(s.mons)

\* only unique geometries count as separate screens
RECURSIVE uniquegeom(_, _)
uniquegeom(info, acc) ==
    IF info = <<>> THEN acc
    ELSE uniquegeom(Tail(info),
                    IF \E k \in 1 .. Len(acc) : acc[k] = Head(info)
                    THEN acc ELSE Append(acc, Head(info)))

SetGeom(m, i, u) ==
    updatebarpos([m EXCEPT !.num = i - 1,
                     !.mon_x = u.x, !.window_x = u.x,
                     !.mon_y = u.y, !.window_y = u.y,
                     !.mon_width = u.w, !.window_width = u.w,
                     !.mon_height = u.h, !.window_height = u.h])

GeomDiffers(m, u) ==
    u.x # m.mon_x \/ u.y # m.mon_y \/ u.w # m.mon_width \/ u.h # m.mon_height

\* the last monitor's clients go to the first monitor, one by one from the head
RECURSIVE migrate(_, _)
migrate(s, last) ==
    IF s.mons[last].clients = <<>> THEN s
    ELSE LET c  == Head(s.mons[last].clients)
             s1 == SetMon(s, last, [s.mons[last] EXCEPT !.clients = Tail(@)])
             s2 == detachstack(s1, c)
             s3 == SetCl(s2, c, [s2.cl[c] EXCEPT !.mon = 1])
         IN  migrate(attachstack(attach(s3, c), c), last)

\* the shrinking loop without the test for the selected monitor
RECURSIVE shrink_keepsel(_, _)
shrink_keepsel(r, nn) ==
    IF Len(r.s.mons) <= nn THEN r
    ELSE LET last == Len(r.s.mons)
             s1 == migrate(r.s, last)
             s2 == [s1 EXCEPT !.mons = SubSeq(s1.mons, 1, last - 1)]
         IN  shrink_keepsel([s |-> s2, dirty |-> r.dirty \/ r.s.mons[last].clients # <<>>], nn)

\* one round of the shrinking loop; r = [s, dirty]
RECURSIVE shrink(_, _)
shrink(r, nn) ==
    IF Len(r.s.mons) <= nn THEN r
    ELSE LET last == Len(r.s.mons)
             s1 == migrate(r.s, last)
             s2 == [s1 EXCEPT !.selmon = IF s1.selmon = last THEN 1 ELSE @,
                              !.mons = SubSeq(s1.mons, 1, last - 1)]
         IN  shrink([s |-> s2, dirty |-> r.dirty \/ r.s.mons[last].clients # <<>>], nn)

\* updategeom with Xinerama active: info is what XineramaQueryScreens returns,
\* ptr the pointer position getrootptr reads.  The result is [s, dirty].
updategeom(s, info, ptr) ==
    LET unique == uniquegeom(info, <<>>)
        nn == Len(unique)
        n  == Len(s.mons)
        r  == IF n <= nn
              THEN LET grown == s.mons \o [k \in 1 .. (nn - n) |-> createmon]
                       ch(i) == i > n \/ GeomDiffers(grown[i], unique[i])
                   IN  [s |-> [s EXCEPT !.mons =
                                  [i \in 1 .. nn |->
                                     IF ch(i) THEN SetGeom(grown[i], i, unique[i])
                                     ELSE grown[i]]],
                        dirty |-> \E i \in 1 .. nn : ch(i)]
              ELSE shrink([s |-> s, dirty |-> FALSE], nn)
    IN  IF r.dirty
        THEN [s |-> [r.s EXCEPT !.selmon =
                        wintomonroot([r.s EXCEPT !.selmon = 1], ptr)],
              dirty |-> TRUE]
        ELSE r

(***************************************************************************)
(* Focus.                                                                  *)
(***************************************************************************)
\* clearurgent: the flag, and the urgency bit of the window's WM_HINTS
clearurgent(s, c) ==
    SetCl(s, c, [s.cl[c] EXCEPT !.isurgent = FALSE, !.xurgent = FALSE])

\* the stack position focus() gives its target
\* focus that leaves the focus stack as it is
FocusRaise_none(s, c) == s

FocusRaise(s, c) == attachstack(detachstack(s, c), c)

\* focus that takes an invisible client as its target
focus_hidden(s, c0) ==
    LET c == IF c0 = NULL THEN FirstVisible(s, s.mons[s.selmon].stack) ELSE c0
    IN  IF c # NULL
        THEN LET s1 == [s EXCEPT !.selmon = s.cl[c].mon]
                 s2 == IF s1.cl[c].isurgent THEN clearurgent(s1, c) ELSE s1
                 s3 == FocusRaise(s2, c)
             IN  SetMon(s3, s3.selmon, [s3.mons[s3.selmon] EXCEPT !.selected_client = c])
        ELSE SetMon(s, s.selmon, [s.mons[s.selmon] EXCEPT !.selected_client = NULL])

focus(s, c0) ==
    LET c == IF c0 = NULL \/ ~ISVISIBLE(s, c0)
             THEN FirstVisible(s, s.mons[s.selmon].stack) ELSE c0
    IN  IF c # NULL
        THEN LET s1 == [s EXCEPT !.selmon = s.cl[c].mon]
                 s2 == IF s1.cl[c].isurgent THEN clearurgent(s1, c) ELSE s1
                 s3 == FocusRaise(s2, c)
             IN  SetMon(s3, s3.selmon, [s3.mons[s3.selmon] EXCEPT !.selected_client = c])
        ELSE SetMon(s, s.selmon, [s.mons[s.selmon] EXCEPT !.selected_client = NULL])

pop(s, c) ==
    LET s1 == focus(attach(detach(s, c), c), c)
    IN  arrange(s1, s1.cl[c].mon)


(***************************************************************************)
(* Rules (config.h) and manage / unmanage.                                 *)
(***************************************************************************)
rules == << [class |-> "Gimp",    tags |-> {},  isfloating |-> TRUE,  monitor |-> -1],
            [class |-> "Firefox", tags |-> {8}, isfloating |-> FALSE, monitor |-> -1] >>

\* the rule classes that occur in a class name of the model
ClassParts(class) ==
    IF class = "Gimp-Firefox" THEN {"Gimp", "Firefox", class} ELSE {class}

\* strstr(haystack, needle) # NULL, over the class names of the model
strstr(haystack, needle) == needle \in ClassParts(haystack)

\* instance and title are NULL in every rule
RuleMatches(r, class) == strstr(class, r.class)

RECURSIVE applyrulesFrom(_, _, _, _)
applyrulesFrom(s, cl, class, k) ==
    IF k > Len(rules) THEN cl
    ELSE LET r == rules[k]
             hit == {i \in 1 .. Len(s.mons) : s.mons[i].num = r.monitor}
         IN  IF RuleMatches(r, class)
             THEN applyrulesFrom(s,
                     [cl EXCEPT !.isfloating = r.isfloating,
                                !.tags = @ \cup r.tags,
                                !.mon = IF hit # {}
                                        THEN CHOOSE i \in hit : \A j \in hit : i <= j
                                        ELSE @],
                     class, k + 1)
             ELSE applyrulesFrom(s, cl, class, k + 1)

\* applyrules without the fallback to the monitor's tagset
RuleTags_nofallback(tags, m) == tags \cap TAGMASK

\* the tags a client ends applyrules with
RuleTags(tags, m) == IF tags \cap TAGMASK # {} THEN tags \cap TAGMASK ELSE CurTags(m)

applyrules(s, cl, class) ==
    LET c1 == applyrulesFrom(s, [cl EXCEPT !.isfloating = FALSE, !.tags = {}], class, 1)
    IN  [c1 EXCEPT !.tags = RuleTags(c1.tags, s.mons[c1.mon])]

\* updatesizehints: size is the XSizeHints of the window, flags a set
updatesizehints(cl, size) ==
    LET has(f) == f \in size.flags
        basew == IF has("PBaseSize") THEN size.base_width
                 ELSE IF has("PMinSize") THEN size.min_width ELSE 0
        baseh == IF has("PBaseSize") THEN size.base_height
                 ELSE IF has("PMinSize") THEN size.min_height ELSE 0
        maxw  == IF has("PMaxSize") THEN size.max_width ELSE 0
        maxh  == IF has("PMaxSize") THEN size.max_height ELSE 0
        minw  == IF has("PMinSize") THEN size.min_width
                 ELSE IF has("PBaseSize") THEN size.base_width ELSE 0
        minh  == IF has("PMinSize") THEN size.min_height
                 ELSE IF has("PBaseSize") THEN size.base_height ELSE 0
    IN  [cl EXCEPT
            !.basew = basew, !.baseh = baseh,
            !.incw = IF has("PResizeInc") THEN size.width_inc ELSE 0,
            !.inch = IF has("PResizeInc") THEN size.height_inc ELSE 0,
            !.maxw = maxw, !.maxh = maxh, !.minw = minw, !.minh = minh,
            !.mina = IF has("PAspect") THEN <<size.min_aspect[2], size.min_aspect[1]>>
                     ELSE <<0, 1>>,
            !.maxa = IF has("PAspect") THEN <<size.max_aspect[1], size.max_aspect[2]>>
                     ELSE <<0, 1>>,
            !.isfixed = maxw # 0 /\ minw # 0 /\ maxh # 0 /\ minh # 0
                        /\ maxw = minw /\ maxh = minh]

\* updatewmhints without the test for the selected client
updatewmhints_anyclient(s, c, wmh) ==
    LET cl == s.cl[c]
    IN  IF ~wmh.present THEN SetCl(s, c, [cl EXCEPT !.xurgent = FALSE])
        ELSE SetCl(s, c,
               [cl EXCEPT
                  !.xurgent = wmh.urgent,
                  !.isurgent = wmh.urgent,
                  !.neverfocus = IF wmh.hasinput THEN ~wmh.input ELSE FALSE])

\* updatewmhints: wmh is the WM_HINTS XGetWMHints reads, and xurgent the
\* urgency bit the property has when the function returns (XSetWMHints
\* rewrites it without the bit for the selected client)
updatewmhints(s, c, wmh) ==
    LET cl == s.cl[c]
    IN  IF ~wmh.present THEN SetCl(s, c, [cl EXCEPT !.xurgent = FALSE])
        ELSE SetCl(s, c,
               [cl EXCEPT
                  !.xurgent = IF c = s.mons[s.selmon].selected_client /\ wmh.urgent
                              THEN FALSE ELSE wmh.urgent,
                  !.isurgent = IF c = s.mons[s.selmon].selected_client /\ wmh.urgent
                               THEN @ ELSE wmh.urgent,
                  !.neverfocus = IF wmh.hasinput THEN ~wmh.input ELSE FALSE])

\* what leaving fullscreen hands to resizeclient
RestoreRect(cl) == [x |-> cl.oldx, y |-> cl.oldy, w |-> cl.oldw, h |-> cl.oldh]

setfullscreen(s, c, fullscreen) ==
    LET cl == s.cl[c]
        m  == s.mons[cl.mon]
    IN  IF fullscreen /\ ~cl.isfullscreen
        THEN resizeclient(
                 SetCl(s, c, [cl EXCEPT !.isfullscreen = TRUE,
                                        !.oldstate = cl.isfloating,
                                        !.oldbw = cl.bw,
                                        !.bw = 0,
                                        !.isfloating = TRUE]),
                 c, m.mon_x, m.mon_y, m.mon_width, m.mon_height)
        ELSE IF ~fullscreen /\ cl.isfullscreen
        THEN LET r  == RestoreRect(cl)
                 s1 == SetCl(s, c, [cl EXCEPT !.isfullscreen = FALSE,
                                              !.isfloating = cl.oldstate,
                                              !.bw = cl.oldbw,
                                              !.x_pos = r.x, !.y_pos = r.y,
                                              !.width = r.w, !.height = r.h])
             IN  arrange(resizeclient(s1, c, r.x, r.y, r.w, r.h), cl.mon)
        ELSE s

\* a Client as ecalloc leaves it
ZeroClient ==
    [x_pos |-> 0, y_pos |-> 0, width |-> 0, height |-> 0,
     oldx |-> 0, oldy |-> 0, oldw |-> 0, oldh |-> 0,
     basew |-> 0, baseh |-> 0, incw |-> 0, inch |-> 0,
     maxw |-> 0, maxh |-> 0, minw |-> 0, minh |-> 0,
     mina |-> <<0, 1>>, maxa |-> <<0, 1>>,
     bw |-> 0, oldbw |-> 0, tags |-> {},
     isfixed |-> FALSE, isfloating |-> FALSE, isurgent |-> FALSE,
     neverfocus |-> FALSE, oldstate |-> FALSE, isfullscreen |-> FALSE,
     mon |-> 0, xbw |-> 0, xurgent |-> FALSE, wmstate |-> "WithdrawnState"]

\* the geometry clamp of manage
ManageClamp(cl, m) ==
    LET x1 == IF cl.x_pos + WIDTH(cl) > m.mon_x + m.mon_width
              THEN m.mon_x + m.mon_width - WIDTH(cl) ELSE cl.x_pos
        y1 == IF cl.y_pos + HEIGHT(cl) > m.mon_y + m.mon_height
              THEN m.mon_y + m.mon_height - HEIGHT(cl) ELSE cl.y_pos
        x2 == MAX(x1, m.mon_x)
        y2 == MAX(y1, IF m.bar_y = m.mon_y
                         /\ x2 + (cl.width \div 2) >= m.window_x
                         /\ x2 + (cl.width \div 2) < m.window_x + m.window_width
                      THEN bh ELSE m.mon_y)
    IN  [cl EXCEPT !.x_pos = x2, !.y_pos = y2]

\* the monitor and tags manage gives a new client
ManagePlace(s, cl, wa) ==
    IF wa.trans # NULL /\ wa.trans \in Managed(s)
    THEN [cl EXCEPT !.mon = s.cl[wa.trans].mon, !.tags = s.cl[wa.trans].tags]
    ELSE applyrules(s, [cl EXCEPT !.mon = s.selmon], wa.class)

\* the monitor whose selected_client manage overwrites before it arranges
ManageSel(s, c) ==
    SetMon(s, s.cl[c].mon, [s.mons[s.cl[c].mon] EXCEPT !.selected_client = c])

\* manage, the geometry block: the window's attributes, the clamp, the border
ManageGeom(cl, m, wa) ==
    [ManageClamp([cl EXCEPT !.x_pos = wa.x, !.oldx = wa.x,
                            !.y_pos = wa.y, !.oldy = wa.y,
                            !.width = wa.width, !.oldw = wa.width,
                            !.height = wa.height, !.oldh = wa.height,
                            !.oldbw = wa.border_width], m)
     EXCEPT !.bw = borderpx, !.xbw = borderpx]

\* the new Client exists, in no list yet
ManageNew(s, w, cl) == [s EXCEPT !.cl = (w :> cl) @@ s.cl]

WindowTypeDialog(s, c, dialog) ==
    IF dialog THEN SetCl(s, c, [s.cl[c] EXCEPT !.isfloating = TRUE]) ELSE s

\* updatewindowtype: wa.fullscreen is _NET_WM_STATE, wa.dialog _NET_WM_WINDOW_TYPE
updatewindowtype(s, c, wa) ==
    WindowTypeDialog(IF wa.fullscreen THEN setfullscreen(s, c, TRUE) ELSE s, c, wa.dialog)

SetSizeHints(s, c, size) == SetCl(s, c, updatesizehints(s.cl[c], size))

\* manage: a transient or fixed-size client floats
ManageFloat(s, w, trans) ==
    IF ~s.cl[w].isfloating
    THEN SetCl(s, w, [s.cl[w] EXCEPT
                        !.isfloating = trans # NULL \/ s.cl[w].isfixed,
                        !.oldstate = trans # NULL \/ s.cl[w].isfixed])
    ELSE s

\* setclientstate: the WM_STATE property of the client's window
setclientstate(s, c, state) == SetCl(s, c, [s.cl[c] EXCEPT !.wmstate = state])

\* The root window's _NET_CLIENT_LIST is kept as the number of times each
\* window id stands in it; the order of the ids is not kept, no handler
\* reads the property.
\* XChangeProperty(..., PropModeAppend, &(c->win), 1)
AppendClientList(s, w) ==
    [s EXCEPT !.netclientlist[w] = @ + 1]

\* manage, from attach to the end
ManageFinish(s, w) ==
    focus(arrange(ManageSel(setclientstate(
                                AppendClientList(attachstack(attach(s, w), w), w),
                                w, "NormalState"), w),
                  s.cl[w].mon), NULL)

manage(s, w, wa) ==
    ManageFinish(
        ManageFloat(
            updatewmhints(
                SetSizeHints(
                    updatewindowtype(
                        ManageNew(s, w,
                            ManageGeom(ManagePlace(s, ZeroClient, wa),
                                       s.mons[ManagePlace(s, ZeroClient, wa).mon], wa)),
                        w, wa),
                    w, wa.size),
                w, wa.wmh),
            w, wa.trans),
        w)

\* what unmanage leaves on the window of c when it is not destroyed: the
\* border width it configures and the WM_STATE it sets
UnmanageWindow(s, c) ==
    [border_width |-> s.cl[c].oldbw, wmstate |-> "WithdrawnState"]

\* how often w stands in the client lists of the monitors from i on
RECURSIVE ListedFrom(_, _, _)
ListedFrom(s, i, w) ==
    IF i > Len(s.mons) THEN 0
    ELSE Len(SelectSeq(s.mons[i].clients, LAMBDA c : c = w)) + ListedFrom(s, i + 1, w)

\* updateclientlist that only deletes the property
updateclientlist_delete(s) ==
    [s EXCEPT !.netclientlist = [w \in DOMAIN s.netclientlist |-> 0]]

\* delete the property, then append every client of every monitor
updateclientlist(s) ==
    [s EXCEPT !.netclientlist = [w \in DOMAIN s.netclientlist |-> ListedFrom(s, 1, w)]]

unmanage(s, c, destroyed) ==
    LET m  == s.cl[c].mon
        s1 == detachstack(detach(s, c), c)
        s2 == [s1 EXCEPT !.cl = [w \in DOMAIN s1.cl \ {c} |-> s1.cl[w]]]
    IN  arrange(updateclientlist(focus(s2, NULL)), m)

\* sendmon that leaves the client on the focus stack it came from
sendmon_keepstack(s, c, i) ==
    IF s.cl[c].mon = i THEN s
    ELSE LET s1 == detach(s, c)
             s2 == SetCl(s1, c, [s1.cl[c] EXCEPT !.mon = i, !.tags = CurTags(s1.mons[i])])
             s3 == attachstack(attach(s2, c), c)
         IN  arrange(focus(s3, NULL), NULL)

sendmon(s, c, i) ==
    IF s.cl[c].mon = i THEN s
    ELSE LET s1 == detachstack(detach(s, c), c)
             s2 == SetCl(s1, c, [s1.cl[c] EXCEPT !.mon = i, !.tags = CurTags(s1.mons[i])])
             s3 == attachstack(attach(s2, c), c)
         IN  arrange(focus(s3, NULL), NULL)


(***************************************************************************)
(* Bound commands.                                                         *)
(***************************************************************************)
SelMon(s) == s.mons[s.selmon]

Sel(s) == SelMon(s).selected_client

\* the tagset view() installs for arg->ui
ViewMask(ui) == ui \cap TAGMASK

\* view that writes the new tagset into the slot it has just left
view_wrongslot(s, ui) ==
    IF ViewMask(ui) = CurTags(SelMon(s)) THEN s
    ELSE arrange(focus(SetMon(s, s.selmon,
                    [SelMon(s) EXCEPT
                        !.tagset[SelMon(s).seltags + 1] =
                            IF ViewMask(ui) # {} THEN ViewMask(ui) ELSE @,
                        !.seltags = 1 - @]), NULL),
                 s.selmon)

view(s, ui) ==
    IF ViewMask(ui) = CurTags(SelMon(s)) THEN s
    ELSE LET m  == SelMon(s)
             st == 1 - m.seltags
             m1 == [m EXCEPT !.seltags = st,
                             !.tagset[st + 1] = IF ViewMask(ui) # {} THEN ViewMask(ui) ELSE @]
             s1 == focus(SetMon(s, s.selmon, m1), NULL)
         IN  arrange(s1, s1.selmon)

\* toggleview without the test of the new tagset
toggleview_empty(s, ui) ==
    LET m == SelMon(s)
        newtagset == BitXor(CurTags(m), ui \cap TAGMASK)
        s1 == focus(SetMon(s, s.selmon,
                           [m EXCEPT !.tagset[m.seltags + 1] = newtagset]), NULL)
    IN  arrange(s1, s1.selmon)

toggleview(s, ui) ==
    LET m == SelMon(s)
        newtagset == BitXor(CurTags(m), ui \cap TAGMASK)
    IN  IF newtagset # {}
        THEN LET s1 == focus(SetMon(s, s.selmon,
                                    [m EXCEPT !.tagset[m.seltags + 1] = newtagset]), NULL)
             IN  arrange(s1, s1.selmon)
        ELSE s

\* the tags tag() stores for arg->ui
TagMask(ui) == ui \cap TAGMASK

tag(s, ui) ==
    IF Sel(s) # NULL /\ ui \cap TAGMASK # {}
    THEN LET s1 == focus(SetCl(s, Sel(s), [s.cl[Sel(s)] EXCEPT !.tags = TagMask(ui)]), NULL)
         IN  arrange(s1, s1.selmon)
    ELSE s

\* the tags toggletag() computes for arg->ui
ToggleMask(tags, ui) == BitXor(tags, ui \cap TAGMASK)

\* toggletag that stores the new tags even when none is left
toggletag_noguard(s, ui) ==
    IF Sel(s) = NULL THEN s
    ELSE arrange(focus(SetCl(s, Sel(s), [s.cl[Sel(s)] EXCEPT
                                           !.tags = ToggleMask(@, ui)]), NULL),
                 s.selmon)

toggletag(s, ui) ==
    IF Sel(s) = NULL THEN s
    ELSE LET newtags == ToggleMask(s.cl[Sel(s)].tags, ui)
         IN  IF newtags # {}
             THEN LET s1 == focus(SetCl(s, Sel(s), [s.cl[Sel(s)] EXCEPT !.tags = newtags]),
                                  NULL)
                  IN  arrange(s1, s1.selmon)
             ELSE s

tagmon(s, i) ==
    IF Sel(s) = NULL \/ Len(s.mons) < 2 THEN s
    ELSE sendmon(s, Sel(s), dirtomon(s, i))

focusmon(s, i) ==
    IF Len(s.mons) < 2 THEN s
    ELSE IF dirtomon(s, i) = s.selmon THEN s
    ELSE focus([s EXCEPT !.selmon = dirtomon(s, i)], NULL)

\* the visible clients of the selected monitor before / after position k
VisibleIn(s, seq) == SelectSeq(seq, LAMBDA c : ISVISIBLE(s, c))

PosOf(seq, c) == CHOOSE k \in 1 .. Len(seq) : seq[k] = c

\* focusstack that goes forward whatever the direction
focusstack_next(s, dir) ==
    IF Sel(s) = NULL THEN s
    ELSE LET cs == SelMon(s).clients
             k  == PosOf(cs, Sel(s))
             after  == VisibleIn(s, SubSeq(cs, k + 1, Len(cs)))
             all    == VisibleIn(s, cs)
             c == IF after # <<>> THEN Head(after)
                  ELSE IF all # <<>> THEN Head(all) ELSE NULL
         IN  IF c # NULL THEN focus(s, c) ELSE s

focusstack(s, dir) ==
    IF Sel(s) = NULL THEN s
    ELSE LET cs == SelMon(s).clients
             k  == PosOf(cs, Sel(s))
             after  == VisibleIn(s, SubSeq(cs, k + 1, Len(cs)))
             before == VisibleIn(s, SubSeq(cs, 1, k - 1))
             all    == VisibleIn(s, cs)
             \* the backward wrap walks on from the selected client itself
             tail   == VisibleIn(s, SubSeq(cs, k, Len(cs)))
             c == IF dir > 0
                  THEN (IF after # <<>> THEN Head(after)
                        ELSE IF all # <<>> THEN Head(all) ELSE NULL)
                  ELSE (IF before # <<>> THEN before[Len(before)]
                        ELSE IF tail # <<>> THEN tail[Len(tail)] ELSE NULL)
         IN  IF c # NULL THEN focus(s, c) ELSE s

zoom(s) ==
    LET c  == Sel(s)
        tl == nexttiled(s, s.selmon)
    IN  IF LtArrange(SelMon(s)) = "NULL" \/ (c # NULL /\ s.cl[c].isfloating) THEN s
        ELSE IF (tl = <<>> /\ c = NULL) \/ (tl # <<>> /\ c = Head(tl))
        THEN (IF c = NULL \/ Len(tl) < 2 THEN s ELSE pop(s, tl[2]))
        ELSE IF c = NULL THEN s
        ELSE pop(s, c)

\* setlayout that writes a new layout into the active slot
setlayout_sameslot(s, l) ==
    LET m  == SelMon(s)
        st == IF l = -1 THEN 1 - m.sellt ELSE m.sellt
        m1 == [m EXCEPT !.sellt = st, !.lt[st + 1] = IF l # -1 THEN l ELSE @]
        s1 == SetMon(s, s.selmon, m1)
    IN  IF m.selected_client # NULL THEN arrange(s1, s1.selmon) ELSE s1

\* setlayout: l is an index into layouts, or -1 for a null argument
setlayout(s, l) ==
    LET m  == SelMon(s)
        st == IF l = -1 \/ l # CurLt(m) THEN 1 - m.sellt ELSE m.sellt
        m1 == [m EXCEPT !.sellt = st, !.lt[st + 1] = IF l # -1 THEN l ELSE @]
        s1 == SetMon(s, s.selmon, m1)
    IN  IF m.selected_client # NULL THEN arrange(s1, s1.selmon) ELSE s1

\* the float setmfact computes from arg->f and the monitor's mfact
MfactTarget(f, mf) == IF f < FOne THEN F32(f + mf) ELSE F32(f - FOne)

\* f < 0.1 || f > 0.9, the float compared as a double
MfactOutside(f) == f <= FTenthBelow \/ f >= FNineTenthsAbove

\* the float nearest to the bound of [0.1, 0.9] that f lies beyond
MfactClamp(f) ==
    IF f <= FTenthBelow THEN F32(FTenthBelow + 1)
    ELSE IF f >= FNineTenthsAbove THEN F32(FNineTenthsAbove) ELSE f

\* setmfact that limits the target to the range instead of returning
setmfact_clamped(s, f) ==
    LET m == SelMon(s)
        nf == MfactTarget(f, m.mfact)
    IN  IF LtArrange(m) = "NULL" THEN s
        ELSE arrange(SetMon(s, s.selmon,
                 [m EXCEPT !.mfact = MfactClamp(nf)]),
                 s.selmon)

\* setmfact: f is arg->f, never a null arg with the bindings of config.h
setmfact(s, f) ==
    LET m == SelMon(s)
        nf == MfactTarget(f, m.mfact)
    IN  IF LtArrange(m) = "NULL" THEN s
        ELSE IF MfactOutside(nf) THEN s
        ELSE arrange(SetMon(s, s.selmon, [m EXCEPT !.mfact = nf]), s.selmon)

togglebar(s) ==
    LET m == SelMon(s)
    IN  arrange(SetMon(s, s.selmon, updatebarpos([m EXCEPT !.showbar = ~@])), s.selmon)

\* togglefloating without the isfullscreen return
togglefloating_nofullscreencheck(s) ==
    LET c == Sel(s)
    IN  IF c = NULL THEN s
        ELSE LET cl == s.cl[c]
                 fl == ~cl.isfloating \/ cl.isfixed
                 s1 == SetCl(s, c, [cl EXCEPT !.isfloating = fl])
                 s2 == IF fl THEN resize(s1, c, cl.x_pos, cl.y_pos, cl.width, cl.height, FALSE)
                       ELSE s1
             IN  arrange(s2, s2.selmon)

\* togglefloating that flips the flag of a fixed-size client too
togglefloating_flip(s) ==
    LET c == Sel(s)
    IN  IF c = NULL THEN s
        ELSE IF s.cl[c].isfullscreen THEN s
        ELSE LET cl == s.cl[c]
                 fl == ~cl.isfloating
                 s1 == SetCl(s, c, [cl EXCEPT !.isfloating = fl])
                 s2 == IF fl THEN resize(s1, c, cl.x_pos, cl.y_pos, cl.width, cl.height, FALSE)
                       ELSE s1
             IN  arrange(s2, s2.selmon)

togglefloating(s) ==
    LET c == Sel(s)
    IN  IF c = NULL THEN s
        ELSE IF s.cl[c].isfullscreen THEN s
        ELSE LET cl == s.cl[c]
                 fl == ~cl.isfloating \/ cl.isfixed
                 s1 == SetCl(s, c, [cl EXCEPT !.isfloating = fl])
                 s2 == IF fl THEN resize(s1, c, cl.x_pos, cl.y_pos, cl.width, cl.height, FALSE)
                       ELSE s1
             IN  arrange(s2, s2.selmon)


(***************************************************************************)
(* Event handlers.                                                         *)
(***************************************************************************)
\* scan, one of its two loops over the windows XQueryTree returned: wins[k]
\* is a window, its attributes and whether it is viewable or iconic
ScanTakes(win, transients) ==
    IF transients THEN win.wa.trans # NULL /\ win.mapped
    ELSE ~win.wa.override_redirect /\ win.wa.trans = NULL /\ win.mapped

RECURSIVE scanFrom(_, _, _, _)
scanFrom(s, wins, k, transients) ==
    IF k > Len(wins) THEN s
    ELSE scanFrom(IF ScanTakes(wins[k], transients)
                  THEN manage(s, wins[k].win, wins[k].wa) ELSE s,
                  wins, k + 1, transients)

scan(s, wins) == scanFrom(scanFrom(s, wins, 1, FALSE), wins, 1, TRUE)

\* maprequest without the wintoclient test
maprequest_again(s, w, wa) ==
    IF wa.override_redirect THEN s
    ELSE manage(s, w, wa)

maprequest(s, w, wa) ==
    IF wa.override_redirect THEN s
    ELSE IF w \in Managed(s) THEN s
    ELSE manage(s, w, wa)

\* unmapnotify that does not look at send_event
unmapnotify_anysender(s, w, send_event) ==
    IF w \notin Managed(s) THEN s
    ELSE unmanage(s, w, FALSE)

unmapnotify(s, w, send_event) ==
    IF w \notin Managed(s) THEN s
    ELSE IF send_event THEN setclientstate(s, w, "WithdrawnState")
    ELSE unmanage(s, w, FALSE)

\* destroynotify that keeps the client
destroynotify_keep(s, w) == s

destroynotify(s, w) ==
    IF w \in Managed(s) THEN unmanage(s, w, TRUE) ELSE s

\* the loop that stops after the first monitor
RECURSIVE cleanupFrom_first(_, _)
cleanupFrom_first(s, i) ==
    IF i > 1 THEN s
    ELSE IF s.mons[i].stack # <<>>
    THEN cleanupFrom_first(unmanage(s, Head(s.mons[i].stack), FALSE), i)
    ELSE cleanupFrom_first(s, i + 1)

\* cleanup, the loop over the monitors: unmanage the head of each focus
\* stack until the stack is empty
RECURSIVE cleanupFrom(_, _)
cleanupFrom(s, i) ==
    IF i > Len(s.mons) THEN s
    ELSE IF s.mons[i].stack # <<>>
    THEN cleanupFrom(unmanage(s, Head(s.mons[i].stack), FALSE), i)
    ELSE cleanupFrom(s, i + 1)

\* cleanup: view(~0), a layout without arrange function on the selected
\* monitor, every client unmanaged, every monitor freed
cleanupView(s) ==
    SetMon(s, s.selmon, [SelMon(s) EXCEPT !.lt[SelMon(s).sellt + 1] = LtFloat])

cleanup(s) ==
    [cleanupFrom(cleanupView(view(s, AllBits)), 1) EXCEPT !.mons = <<>>, !.selmon = NULL]

\* quit only clears the flag the loop of run tests
quit(s) == [s EXCEPT !.running = FALSE]

\* main returning without cleanup
mainexit_nocleanup(s) == [s EXCEPT !.exit = "EXIT_SUCCESS"]

\* main after run has returned: cleanup, XCloseDisplay, return EXIT_SUCCESS
mainexit(s) == [cleanup(s) EXCEPT !.exit = "EXIT_SUCCESS"]

\* enternotify on a managed client's window
enternotify(s, c) ==
    IF s.cl[c].mon # s.selmon
    THEN focus([s EXCEPT !.selmon = s.cl[c].mon], c)
    ELSE IF c = Sel(s) THEN s
    ELSE focus(s, c)

\* enternotify on the root window, the pointer at ptr
enternotifyroot(s, ptr) ==
    LET m == wintomonroot(s, ptr)
    IN  IF m # s.selmon THEN focus([s EXCEPT !.selmon = m], NULL) ELSE s

\* buttonpress on a managed client's window, no button binding matching
buttonpress(s, c) ==
    LET s1 == IF s.cl[c].mon # s.selmon
              THEN focus([s EXCEPT !.selmon = s.cl[c].mon], NULL) ELSE s
    IN  focus(s1, c)

\* movemouse up to its loop, the pointer at ptr
movemouse(s, ptr) ==
    IF Sel(s) = NULL THEN s
    ELSE IF s.cl[Sel(s)].isfullscreen THEN s
    ELSE [s EXCEPT !.grab = [client |-> Sel(s),
                             ocx |-> s.cl[Sel(s)].x_pos, ocy |-> s.cl[Sel(s)].y_pos,
                             x |-> ptr[1], y |-> ptr[2], loop |-> "move"]]

\* movemouse, MotionNotify: snapping to the edges of the work area
MoveSnapX(m, cl, nx) ==
    IF ABS(m.window_x - nx) < snap THEN m.window_x
    ELSE IF ABS((m.window_x + m.window_width) - (nx + WIDTH(cl))) < snap
    THEN m.window_x + m.window_width - WIDTH(cl)
    ELSE nx

MoveSnapY(m, cl, ny) ==
    IF ABS(m.window_y - ny) < snap THEN m.window_y
    ELSE IF ABS((m.window_y + m.window_height) - (ny + HEIGHT(cl))) < snap
    THEN m.window_y + m.window_height - HEIGHT(cl)
    ELSE ny

MoveInside(m, nx, ny) ==
    /\ nx >= m.window_x /\ nx <= m.window_x + m.window_width
    /\ ny >= m.window_y /\ ny <= m.window_y + m.window_height

\* togglefloating(NULL) once the tiled client was dragged further than snap
MoveFloat(s, c, nx, ny) ==
    IF /\ ~s.cl[c].isfloating
       /\ LtArrange(SelMon(s)) # "NULL"
       /\ (ABS(nx - s.cl[c].x_pos) > snap \/ ABS(ny - s.cl[c].y_pos) > snap)
    THEN togglefloating(s) ELSE s

MoveResize(s, c, nx, ny) ==
    IF LtArrange(SelMon(s)) = "NULL" \/ s.cl[c].isfloating
    THEN resize(s, c, nx, ny, s.cl[c].width, s.cl[c].height, TRUE)
    ELSE s

MoveTo(s, c, nx, ny) ==
    IF MoveInside(SelMon(s), nx, ny)
    THEN MoveResize(MoveFloat(s, c, MoveSnapX(SelMon(s), s.cl[c], nx),
                                    MoveSnapY(SelMon(s), s.cl[c], ny)),
                    c, MoveSnapX(SelMon(s), s.cl[c], nx),
                    MoveSnapY(SelMon(s), s.cl[c], ny))
    ELSE MoveResize(s, c, nx, ny)

\* movemouse, a MotionNotify later than 1000/60 ms after the last one
movemouse_motion(s, ptr) ==
    MoveTo(s, s.grab.client, s.grab.ocx + (ptr[1] - s.grab.x),
           s.grab.ocy + (ptr[2] - s.grab.y))

\* movemouse from ButtonRelease on
MoveDrop(s, c, m) ==
    IF m # s.selmon THEN focus([sendmon(s, c, m) EXCEPT !.selmon = m], NULL) ELSE s

movemouse_release(s) ==
    MoveDrop([s EXCEPT !.grab = NoGrab], s.grab.client,
             recttomon(s, s.cl[s.grab.client].x_pos, s.cl[s.grab.client].y_pos,
                       s.cl[s.grab.client].width, s.cl[s.grab.client].height))

\* resizemouse up to its loop
resizemouse(s) ==
    IF Sel(s) = NULL THEN s
    ELSE IF s.cl[Sel(s)].isfullscreen THEN s
    ELSE [s EXCEPT !.grab = [client |-> Sel(s),
                             ocx |-> s.cl[Sel(s)].x_pos, ocy |-> s.cl[Sel(s)].y_pos,
                             x |-> 0, y |-> 0, loop |-> "resize"]]

\* resizemouse, MotionNotify: the new size is inside the selected monitor's
\* work area when measured from the origin of the client's monitor
ResizeInside(m, sm, nw, nh) ==
    /\ m.window_x + nw >= sm.window_x /\ m.window_x + nw <= sm.window_x + sm.window_width
    /\ m.window_y + nh >= sm.window_y /\ m.window_y + nh <= sm.window_y + sm.window_height

\* togglefloating(NULL) once the tiled client was resized by more than snap
ResizeFloat(s, c, nw, nh) ==
    IF /\ ResizeInside(MonOf(s, c), SelMon(s), nw, nh)
       /\ ~s.cl[c].isfloating
       /\ LtArrange(SelMon(s)) # "NULL"
       /\ (ABS(nw - s.cl[c].width) > snap \/ ABS(nh - s.cl[c].height) > snap)
    THEN togglefloating(s) ELSE s

ResizeResize(s, c, nw, nh) ==
    IF LtArrange(SelMon(s)) = "NULL" \/ s.cl[c].isfloating
    THEN resize(s, c, s.cl[c].x_pos, s.cl[c].y_pos, nw, nh, TRUE)
    ELSE s

ResizeDrag(s, c, nw, nh) == ResizeResize(ResizeFloat(s, c, nw, nh), c, nw, nh)

\* resizemouse, a MotionNotify later than 1000/60 ms after the last one
resizemouse_motion(s, ptr) ==
    ResizeDrag(s, s.grab.client,
               MAX(ptr[1] - s.grab.ocx - 2 * s.cl[s.grab.client].bw + 1, 1),
               MAX(ptr[2] - s.grab.ocy - 2 * s.cl[s.grab.client].bw + 1, 1))

\* resizemouse from ButtonRelease on
resizemouse_release(s) ==
    MoveDrop([s EXCEPT !.grab = NoGrab], s.grab.client,
             recttomon(s, s.cl[s.grab.client].x_pos, s.cl[s.grab.client].y_pos,
                       s.cl[s.grab.client].width, s.cl[s.grab.client].height))

\* the test on a MotionNotify in both loops; dt is the event's time minus
\* lasttime, the time of the last MotionNotify that was not skipped
MotionSkipped_never(dt) == FALSE

MotionSkipped(dt) == dt <= 1000 \div 60

\* one turn of the loop for a MotionNotify
loop_motionnotify(s, ptr, dt) ==
    IF MotionSkipped(dt) THEN s
    ELSE IF s.grab.loop = "move" THEN movemouse_motion(s, ptr)
    ELSE resizemouse_motion(s, ptr)

\* the last turn of the loop, for a ButtonRelease, and what follows it
loop_buttonrelease(s) ==
    IF s.grab.loop = "move" THEN movemouse_release(s) ELSE resizemouse_release(s)

\* the fullscreen flag when a toggle is taken for an add
WantFullscreen_toggleadds(action, isfullscreen) ==
    action = 1 \/ action = 2

\* the fullscreen flag a _NET_WM_STATE message asks for; action is data.l[0]
WantFullscreen(action, isfullscreen) ==
    action = 1 \/ (action = 2 /\ ~isfullscreen)

clientmessage_state(s, c, action) ==
    setfullscreen(s, c, WantFullscreen(action, s.cl[c].isfullscreen))

\* _NET_ACTIVE_WINDOW writing the client's tags into the current slot
clientmessage_active_noflip(s, c) ==
    LET i  == s.cl[c].mon
        m  == s.mons[i]
        s1 == IF ~ISVISIBLE(s, c)
              THEN SetMon(s, i, [m EXCEPT !.tagset[m.seltags + 1] = s.cl[c].tags])
              ELSE s
    IN  pop(s1, c)

clientmessage_active(s, c) ==
    LET i  == s.cl[c].mon
        m  == s.mons[i]
        st == 1 - m.seltags
        s1 == IF ~ISVISIBLE(s, c)
              THEN SetMon(s, i, [m EXCEPT !.seltags = st, !.tagset[st + 1] = s.cl[c].tags])
              ELSE s
    IN  pop(s1, c)

\* propertynotify for XA_WM_HINTS on a managed client; wmh is the property
propertynotify_hints(s, c, wmh) == updatewmhints(s, c, wmh)

\* configurerequest; ev = [mask, x, y, width, height, border_width], mask a
\* set of CW names.  For a window without a client the request is passed
\* on to the server and no client changes.
configurerequest(s, c, ev) ==
    LET cl == s.cl[c]
        m  == s.mons[cl.mon]
        has(f) == f \in ev.mask
    IN  IF c \notin Managed(s) THEN s
        ELSE IF has("CWBorderWidth")
        THEN SetCl(s, c, [cl EXCEPT !.bw = ev.border_width])
        ELSE IF cl.isfloating \/ LtArrange(SelMon(s)) = "NULL"
        THEN LET c1 == [cl EXCEPT
                          !.oldx = IF has("CWX") THEN cl.x_pos ELSE @,
                          !.x_pos = IF has("CWX") THEN m.mon_x + ev.x ELSE @,
                          !.oldy = IF has("CWY") THEN cl.y_pos ELSE @,
                          !.y_pos = IF has("CWY") THEN m.mon_y + ev.y ELSE @,
                          !.oldw = IF has("CWWidth") THEN cl.width ELSE @,
                          !.width = IF has("CWWidth") THEN ev.width ELSE @,
                          !.oldh = IF has("CWHeight") THEN cl.height ELSE @,
                          !.height = IF has("CWHeight") THEN ev.height ELSE @]
                 c2 == IF c1.x_pos + c1.width > m.mon_x + m.mon_width /\ c1.isfloating
                       THEN [c1 EXCEPT !.x_pos = m.mon_x
                                + (CDiv(m.mon_width, 2) - CDiv(WIDTH(c1), 2))]
                       ELSE c1
                 c3 == IF c2.y_pos + c2.height > m.mon_y + m.mon_height /\ c2.isfloating
                       THEN [c2 EXCEPT !.y_pos = m.mon_y
                                + (CDiv(m.mon_height, 2) - CDiv(HEIGHT(c2), 2))]
                       ELSE c2
             IN  SetCl(s, c, c3)
        ELSE s

\* configurenotify on root: ev carries the new root size, info is what
\* Xinerama reports, ptr the pointer
configurenotify(s, ev, info, ptr) ==
    LET dirty == s.sw # ev.width \/ s.sh # ev.height
        r == updategeom([s EXCEPT !.sw = ev.width, !.sh = ev.height], info, ptr)
    IN  IF r.dirty \/ dirty THEN arrange(focus(r.s, NULL), NULL) ELSE r.s

(***************************************************************************)
(* The X server's side: screens, pointer positions, windows.               *)
(***************************************************************************)
\* the k-th Xinerama screen
ScreenAt(k) ==
    IF k = 1 THEN [x |-> 0, y |-> 0, w |-> 1920, h |-> 1080]
    ELSE [x |-> 1920 + (k - 2) * 1280, y |-> 0, w |-> 1280, h |-> 1024]

\* a display of n screens side by side, and the mirrored pair
Display(n) ==
    [width |-> 1920 + (n - 1) * 1280, height |-> 1080,
     info |-> [k \in 1 .. n |-> ScreenAt(k)]]

Mirrored == [width |-> 1920, height |-> 1080, info |-> <<ScreenAt(1), ScreenAt(1)>>]

Displays == {Display(n) : n \in 1 .. MaxScreens} \cup {Mirrored}

\* where the pointer may be: the middle of a screen, or the root's origin
Pointers(sw, sh) ==
    {p \in {<<0, 0>>} \cup {<<ScreenAt(k).x + 640, 512>> : k \in 1 .. MaxScreens} :
        p[1] < sw /\ p[2] < sh}

NoSize ==
    [flags |-> {}, base_width |-> 0, base_height |-> 0, min_width |-> 0,
     min_height |-> 0, max_width |-> 0, max_height |-> 0, width_inc |-> 0,
     height_inc |-> 0, min_aspect |-> <<0, 1>>, max_aspect |-> <<0, 1>>]

NoHints == [present |-> FALSE, urgent |-> FALSE, hasinput |-> FALSE, input |-> FALSE]

\* WM_HINTS with and without the urgency bit
Urgent == [present |-> TRUE, urgent |-> TRUE, hasinput |-> FALSE, input |-> FALSE]

Calm == [present |-> TRUE, urgent |-> FALSE, hasinput |-> FALSE, input |-> FALSE]

\* an ordinary top-level window
Plain ==
    [x |-> 100, y |-> 100, width |-> 800, height |-> 600, border_width |-> 2,
     override_redirect |-> FALSE, trans |-> NULL, class |-> "URxvt",
     fullscreen |-> FALSE, dialog |-> FALSE, size |-> NoSize, wmh |-> NoHints]

Firefox == [Plain EXCEPT !.class = "Firefox", !.x = 0, !.y = 0, !.border_width = 0]

Gimp == [Plain EXCEPT !.class = "Gimp", !.x = 1500, !.y = 700]

\* a window whose class matches both rules
GimpFirefox == [Plain EXCEPT !.class = "Gimp-Firefox"]

\* a dialog of fixed size, transient for window p
Dialog(p) ==
    [Plain EXCEPT !.trans = p, !.class = "", !.dialog = TRUE,
                  !.x = 300, !.y = 200, !.width = 400, !.height = 300,
                  !.size = [NoSize EXCEPT !.flags = {"PMinSize", "PMaxSize"},
                                          !.min_width = 400, !.min_height = 300,
                                          !.max_width = 400, !.max_height = 300]]

\* a dialog of window p that is mapped with the urgency bit set
UrgentDialog(p) == [Dialog(p) EXCEPT !.wmh = Urgent]

\* a terminal with resize increments
Terminal ==
    [Plain EXCEPT !.size = [NoSize EXCEPT !.flags = {"PBaseSize", "PResizeInc"},
                                          !.base_width = 4, !.base_height = 4,
                                          !.width_inc = 7, !.height_inc = 14]]

\* a window with a maximum size
Capped ==
    [Plain EXCEPT !.size = [NoSize EXCEPT !.flags = {"PMaxSize"},
                                          !.max_width = 200, !.max_height = 150]]

\* a window that keeps its aspect between 4:3 and 16:9, in steps of 16
Viewer ==
    [Plain EXCEPT !.size = [NoSize EXCEPT !.flags = {"PAspect", "PResizeInc"},
                                          !.min_aspect = <<4, 3>>,
                                          !.max_aspect = <<16, 9>>,
                                          !.width_inc = 16, !.height_inc = 16]]

\* a window that asks for fullscreen before it is mapped
Video == [Plain EXCEPT !.class = "mpv", !.fullscreen = TRUE]

Popup == [Plain EXCEPT !.override_redirect = TRUE]

Windows == 1 .. MaxWin

\* the tag masks the bound keys and bar clicks pass: 1 << i, ~0, and 0
TagKeys == {{i} : i \in 0 .. (MaxTagKeys - 1)}

(***************************************************************************)
(* Initial state: setup() on some display, no window managed yet.          *)
(***************************************************************************)
\* netclientlist: setup deletes the root window's _NET_CLIENT_LIST
Blank == [mons |-> <<>>, cl |-> <<>>, selmon |-> 0, sw |-> 0, sh |-> 0, grab |-> NoGrab,
          running |-> TRUE, exit |-> "none", netclientlist |-> [w \in Windows |-> 0]]

setup(d, ptr) ==
    focus(updategeom([Blank EXCEPT !.sw = d.width, !.sh = d.height], d.info, ptr).s, NULL)

Do(r) ==
    /\ mons' = r.mons
    /\ clients' = r.cl
    /\ selmon' = r.selmon
    /\ scr' = [sw |-> r.sw, sh |-> r.sh, grab |-> r.grab,
               running |-> r.running, exit |-> r.exit,
               netclientlist |-> r.netclientlist]

InitOn(D) ==
    \E d \in D : \E ptr \in Pointers(d.width, d.height) :
        LET r == setup(d, ptr)
        IN  /\ mons = r.mons
            /\ clients = r.cl
            /\ selmon = r.selmon
            /\ scr = [sw |-> r.sw, sh |-> r.sh, grab |-> r.grab,
                      running |-> r.running, exit |-> r.exit,
                      netclientlist |-> r.netclientlist]

Init == InitOn(Displays)

(***************************************************************************)
(* Actions: one per event handler or bound command.                        *)
(***************************************************************************)
MapRequest(w, wa) == Do(maprequest(St, w, wa))

UnmapNotify(w, send_event) == w \in Managed(St) /\ Do(unmapnotify(St, w, send_event))

DestroyNotify(w) == w \in Managed(St) /\ Do(destroynotify(St, w))

EnterNotify(c) == c \in Managed(St) /\ Do(enternotify(St, c))

EnterNotifyRoot(ptr) == Do(enternotifyroot(St, ptr))

ButtonPress(c) == c \in Managed(St) /\ Do(buttonpress(St, c))

ClientMessageState(c, action) == c \in Managed(St) /\ Do(clientmessage_state(St, c, action))

ClientMessageActive(c) == c \in Managed(St) /\ Do(clientmessage_active(St, c))

ConfigureRequest(c, ev) == c \in Managed(St) /\ Do(configurerequest(St, c, ev))

\* a movemouse loop is running
Grabbed == scr.grab.client # NULL

\* where the pointer is when Button1 is pressed on the client's window
PressPoint(cl) == <<cl.x_pos + 10, cl.y_pos + 10>>

\* MODKEY-Button1 on a client's window: buttonpress, then movemouse
MovePress(c) ==
    /\ c \in Managed(St)
    /\ Do(movemouse(buttonpress(St, c), PressPoint(buttonpress(St, c).cl[c])))

MoveMotion(ptr) == Grabbed /\ Do(movemouse_motion(St, ptr))

MoveRelease == Grabbed /\ Do(movemouse_release(St))

\* MODKEY-Button3 on a client's window: buttonpress, then resizemouse
ResizePress(c) ==
    /\ c \in Managed(St)
    /\ Do(resizemouse(buttonpress(St, c)))

\* MotionNotify and ButtonRelease taken by the loop that is running
LoopMotion(ptr, dt) == Grabbed /\ Do(loop_motionnotify(St, ptr, dt))

LoopRelease == Grabbed /\ Do(loop_buttonrelease(St))

\* the test of the loop of run before every event
Running == scr.running

KeyQuit == Do(quit(St))

\* the loop of run has ended and main goes on to cleanup and returns
MainExit == ~Running /\ scr.exit = "none" /\ Do(mainexit(St))

PropertyNotifyHints(c, wmh) == c \in Managed(St) /\ Do(propertynotify_hints(St, c, wmh))

ConfigureNotify(d, ptr) ==
    Do(configurenotify(St, [width |-> d.width, height |-> d.height], d.info, ptr))

KeyView(ui) == Do(view(St, ui))

KeyToggleView(ui) == Do(toggleview(St, ui))

KeyTag(ui) == Do(tag(St, ui))

KeyToggleTag(ui) == Do(toggletag(St, ui))

KeyTagMon(i) == Do(tagmon(St, i))

KeyFocusMon(i) == Do(focusmon(St, i))

KeyFocusStack(dir) == Do(focusstack(St, dir))

KeyZoom == Do(zoom(St))

KeySetLayout(l) == Do(setlayout(St, l))

KeySetMfact(f) == Do(setmfact(St, f))

KeyToggleBar == Do(togglebar(St))

KeyToggleFloating == Do(togglefloating(St))


(***************************************************************************)
(* Specifications.                                                         *)
(***************************************************************************)
\* what window w looks like when it asks to be mapped
Profiles(w) ==
    IF w % 3 = 1 THEN {Plain, Popup}
    ELSE IF w % 3 = 2 THEN {Dialog(1)}
    ELSE {Terminal, Dialog(2)}

\* the monitor numbers focusmon and tagmon are pressed with
Dirs == {0, 1}

\* Lists, focus and monitors: every handler that changes a client list, a
\* focus stack, a selection or the set of monitors.
Next ==
    \/ \E w \in Windows : \E wa \in Profiles(w) : MapRequest(w, wa)
    \/ \E w \in Windows : UnmapNotify(w, FALSE)
    \/ \E w \in Windows : DestroyNotify(w)
    \/ \E c \in Windows : EnterNotify(c)
    \/ \E ptr \in Pointers(scr.sw, scr.sh) : EnterNotifyRoot(ptr)
    \/ \E c \in Windows : ButtonPress(c)
    \/ \E c \in Windows : ClientMessageActive(c)
    \/ \E d \in Displays : \E ptr \in Pointers(d.width, d.height) : ConfigureNotify(d, ptr)
    \/ \E ui \in TagKeys \cup {{}} : KeyView(ui)
    \/ \E ui \in TagKeys : KeyTag(ui)
    \/ \E i \in Dirs : KeyTagMon(i)
    \/ \E i \in Dirs : KeyFocusMon(i)
    \/ \E dir \in {1, -1} : KeyFocusStack(dir)
    \/ KeyZoom

Spec == Init /\ [][Next]_vars

\* Client tags on two monitors: rules, transients, tag, toggletag, tagmon
\* and _NET_ACTIVE_WINDOW.
TagProfiles(w) ==
    IF w % 2 = 1 THEN {Firefox} ELSE {Dialog(1), Gimp}

FirstTagKey == {{0}}

InitTags == InitOn({Display(MaxScreens)})

NextTags ==
    \/ \E w \in Windows : \E wa \in TagProfiles(w) : MapRequest(w, wa)
    \/ \E w \in Windows : DestroyNotify(w)
    \/ \E c \in Windows : ClientMessageActive(c)
    \/ \E ui \in {AllBits} : KeyTag(ui)
    \/ \E ui \in FirstTagKey : KeyToggleTag(ui)
    \/ \E i \in Dirs : KeyTagMon(i)

SpecTags == InitTags /\ [][NextTags]_vars

\* Views on one monitor: view, toggleview, clients on several tags.
ViewProfiles(w) == IF w % 2 = 1 THEN {Plain} ELSE {Terminal}

InitView == InitOn({Display(1)})

NextView ==
    \/ \E w \in Windows : \E wa \in ViewProfiles(w) : MapRequest(w, wa)
    \/ \E w \in Windows : DestroyNotify(w)
    \/ \E c \in Windows : EnterNotify(c)
    \/ \E ui \in TagKeys \cup {{}} : KeyView(ui)
    \/ \E ui \in TagKeys : KeyToggleView(ui)
    \/ \E ui \in TagKeys : KeyToggleTag(ui)

SpecView == InitView /\ [][NextView]_vars

\* Layouts: the arrangers on one monitor, up to MaxTiled clients.
LayoutProfiles(w) == IF w % 3 = 0 THEN {Terminal} ELSE {Plain}

\* the layouts setlayout is bound to with an argument
TilerKeys == {LtTile, LtMonocle, LtBstack, LtBstackhoriz}

\* setmfact arguments -0.25 and +0.25: mfact moves between 0.30, 0.55 and 0.80
MfactSteps == {0 - FOne \div 4, FOne \div 4}

InitLayout == InitOn({Display(1)})

NextLayout ==
    \/ \E w \in 1 .. MaxTiled : \E wa \in LayoutProfiles(w) : MapRequest(w, wa)
    \/ \E w \in 1 .. MaxTiled : DestroyNotify(w)
    \/ \E l \in TilerKeys : KeySetLayout(l)
    \/ \E f \in MfactSteps : KeySetMfact(f)
    \/ KeyToggleBar
    \/ KeyZoom

SpecLayout == InitLayout /\ [][NextLayout]_vars

\* Fullscreen on two monitors: _NET_WM_STATE messages from both windows,
\* ConfigureRequests from the first, tagmon and togglefloating.
FullProfiles(w) == IF w % 2 = 1 THEN {Video} ELSE {Plain}

\* a request for a wider border, and one for a new rectangle
Requests ==
    {[mask |-> {"CWBorderWidth"}, x |-> 0, y |-> 0, width |-> 0, height |-> 0,
      border_width |-> 3],
     [mask |-> {"CWX", "CWY", "CWWidth", "CWHeight"}, x |-> 50, y |-> 60,
      width |-> 640, height |-> 480, border_width |-> 0]}

\* the window that sends ConfigureRequests
Requesters == {1}

InitFull == InitOn({Display(MaxScreens)})

NextFull ==
    \/ \E w \in Windows : \E wa \in FullProfiles(w) : MapRequest(w, wa)
    \/ \E c \in Windows : \E action \in 0 .. 2 : ClientMessageState(c, action)
    \/ \E c \in Requesters : \E ev \in Requests : ConfigureRequest(c, ev)
    \/ \E i \in Dirs : KeyTagMon(i)
    \/ KeyToggleFloating

SpecFull == InitFull /\ [][NextFull]_vars

\* Entering fullscreen on one monitor, with clients on tags that are not
\* viewed and the floating layout.
RoundProfiles(w) == IF w % 2 = 1 THEN {Plain} ELSE {Terminal}

\* _NET_WM_STATE_ADD
StateAdd == {1}

InitRound == InitOn({Display(1)})

NextRound ==
    \/ \E w \in Windows : \E wa \in RoundProfiles(w) : MapRequest(w, wa)
    \/ \E w \in Windows : DestroyNotify(w)
    \/ \E c \in Windows : \E action \in StateAdd : ClientMessageState(c, action)
    \/ \E ui \in TagKeys : KeyView(ui)
    \/ \E l \in {LtTile, LtFloat} : KeySetLayout(l)
    \/ KeyToggleFloating

SpecRound == InitRound /\ [][NextRound]_vars

\* Layouts on two monitors: a monitor is arranged while another is selected.
MonsProfiles(w) == IF w % 2 = 1 THEN {Plain} ELSE {Terminal}

InitMons == InitOn({Display(MaxScreens)})

NextMons ==
    \/ \E w \in Windows : \E wa \in MonsProfiles(w) : MapRequest(w, wa)
    \/ \E w \in Windows : DestroyNotify(w)
    \/ \E l \in {LtTile, LtMonocle} : KeySetLayout(l)
    \/ \E i \in Dirs : KeyTagMon(i)
    \/ \E i \in Dirs : KeyFocusMon(i)

SpecMons == InitMons /\ [][NextMons]_vars

\* Rules on one monitor: windows of the rule classes are managed under
\* different views.
RuleProfiles(w) == IF w % 2 = 1 THEN {Firefox, GimpFirefox} ELSE {Gimp, Plain}

\* the tag the Firefox rule names, next to the bound tag keys
RuleViews == TagKeys \cup {{8}}

InitRules == InitOn({Display(1)})

NextRules ==
    \/ \E w \in Windows : \E wa \in RuleProfiles(w) : MapRequest(w, wa)
    \/ \E w \in Windows : DestroyNotify(w)
    \/ \E ui \in RuleViews : KeyView(ui)
    \/ \E ui \in TagKeys : KeyToggleView(ui)

SpecRules == InitRules /\ [][NextRules]_vars

\* Urgency on two monitors: WM_HINTS changes, and the ways a client gets
\* the focus.
UrgentProfiles(w) == IF w % 2 = 1 THEN {Plain} ELSE {UrgentDialog(1)}

InitUrgent == InitOn({Display(MaxScreens)})

NextUrgent ==
    \/ \E w \in Windows : \E wa \in UrgentProfiles(w) : MapRequest(w, wa)
    \/ \E w \in Windows : DestroyNotify(w)
    \/ \E c \in Windows : \E wmh \in {Urgent, Calm} : PropertyNotifyHints(c, wmh)
    \/ \E c \in Windows : EnterNotify(c)
    \/ \E c \in Windows : ClientMessageActive(c)
    \/ \E ui \in TagKeys : KeyView(ui)
    \/ \E i \in Dirs : KeyFocusMon(i)
    \/ \E i \in Dirs : KeyTagMon(i)

SpecUrgent == InitUrgent /\ [][NextUrgent]_vars

\* setmfact on one monitor: the two bindings of config.h, no change, and
\* the absolute requests 0.5, 0.0625 and 0.9375, under tile and floating.
MfactKeys == {0 - MfactInc, MfactInc}

MfactArgs ==
    MfactKeys \cup {0, FOne + FOne \div 2, FOne + FOne \div 16, 2 * FOne - FOne \div 16}

InitMfact == InitOn({Display(1)})

NextMfact ==
    \/ \E w \in Windows : MapRequest(w, Plain)
    \/ \E w \in Windows : DestroyNotify(w)
    \/ \E f \in MfactArgs : KeySetMfact(f)
    \/ \E l \in {LtTile, LtFloat} : KeySetLayout(l)

SpecMfact == InitMfact /\ [][NextMfact]_vars

\* Size hints on one monitor: increments, a maximum size and an aspect
\* range, on tiled and floating clients.
HintProfiles(w) == IF w % 2 = 1 THEN {Terminal, Capped} ELSE {Plain, Viewer}

InitHints == InitOn({Display(1)})

NextHints ==
    \/ \E w \in Windows : \E wa \in HintProfiles(w) : MapRequest(w, wa)
    \/ \E w \in Windows : DestroyNotify(w)
    \/ \E l \in {LtTile, LtFloat} : KeySetLayout(l)
    \/ \E c \in Windows : EnterNotify(c)
    \/ KeyToggleFloating

SpecHints == InitHints /\ [][NextHints]_vars

\* Floating on one monitor: plain windows, a fullscreen one and a dialog of
\* fixed size; the pointer chooses the selected client.
FloatProfiles(w) == IF w % 2 = 1 THEN {Plain, Video} ELSE {Plain, Dialog(1)}

InitFloat == InitOn({Display(1)})

NextFloat ==
    \/ \E w \in Windows : \E wa \in FloatProfiles(w) : MapRequest(w, wa)
    \/ \E w \in Windows : DestroyNotify(w)
    \/ \E c \in Windows : EnterNotify(c)
    \/ \E c \in Windows : \E action \in StateAdd : ClientMessageState(c, action)
    \/ \E l \in {LtTile, LtFloat} : KeySetLayout(l)
    \/ KeyToggleFloating

SpecFloat == InitFloat /\ [][NextFloat]_vars

\* The focus cycle on one monitor: up to MaxTiled clients, some of them on a
\* tag that is not viewed.
InitStack == InitOn({Display(1)})

NextStack ==
    \/ \E w \in 1 .. MaxTiled : MapRequest(w, Plain)
    \/ \E w \in 1 .. MaxTiled : DestroyNotify(w)
    \/ \E ui \in TagKeys : KeyView(ui)
    \/ \E ui \in TagKeys : KeyTag(ui)
    \/ \E dir \in {1, -1} : KeyFocusStack(dir)

SpecStack == InitStack /\ [][NextStack]_vars

\* Tagsets on two monitors: view with a tag and with 0, toggleview,
\* and _NET_ACTIVE_WINDOW for clients on tags that are not viewed.
TagsetProfiles(w) == IF w % 2 = 1 THEN {Plain} ELSE {Firefox}

InitTagset == InitOn({Display(MaxScreens)})

NextTagset ==
    \/ \E w \in Windows : \E wa \in TagsetProfiles(w) : MapRequest(w, wa)
    \/ \E c \in Windows : ClientMessageActive(c)
    \/ \E ui \in FirstTagKey \cup {{}} : KeyView(ui)
    \/ \E ui \in FirstTagKey : KeyToggleView(ui)
    \/ \E i \in Dirs : KeyFocusMon(i)

SpecTagset == InitTagset /\ [][NextTagset]_vars

\* The life of a client on two monitors: MapRequest, both kinds of
\* UnmapNotify, DestroyNotify and quit.  The loop of run takes an event only
\* while running is set.
LifeProfiles(w) == IF w % 2 = 1 THEN {Plain} ELSE {Dialog(1)}

InitLife == InitOn({Display(MaxScreens)})

NextLife ==
    \/ Running /\ \E w \in Windows : \E wa \in LifeProfiles(w) : MapRequest(w, wa)
    \/ Running /\ \E w \in Windows : \E se \in BOOLEAN : UnmapNotify(w, se)
    \/ Running /\ \E w \in Windows : DestroyNotify(w)
    \/ Running /\ \E ui \in TagKeys : KeyView(ui)
    \/ Running /\ \E i \in Dirs : KeyTagMon(i)
    \/ Running /\ \E i \in Dirs : KeyFocusMon(i)
    \/ Running /\ KeyQuit
    \/ MainExit

SpecLife == InitLife /\ [][NextLife]_vars

\* what main leaves behind when it returns: no monitor, no client
Exited(s) ==
    [s EXCEPT !.mons = <<>>, !.cl = <<>>, !.selmon = NULL, !.exit = "EXIT_SUCCESS",
              !.netclientlist = [w \in DOMAIN s.netclientlist |-> 0]]

\* the step MainExit written by its outcome, so that ENABLED has nothing to
\* compute; C24 checks that mainexit(St) = Exited(St) wherever it is enabled
MainExitStep == ~Running /\ scr.exit = "none" /\ Do(Exited(St))

\* The same with the scheduling of main: once run has returned, main goes
\* on to cleanup and returns.
SpecExit == SpecLife /\ WF_vars(MainExitStep)

\* MapRequests, repeated and inside the loop of movemouse.  The loop takes
\* MapRequest, MotionNotify and ButtonRelease from the queue; every other
\* event waits until the loop has ended.
MoveProfiles(w) == IF w % 2 = 1 THEN {Plain, Popup} ELSE {Terminal}

\* where MotionNotify reports the pointer
MovePointers == {<<110, 128>>, <<700, 400>>}

InitMove == InitOn({Display(1)})

NextMove ==
    \/ \E w \in Windows : \E wa \in MoveProfiles(w) : MapRequest(w, wa)
    \/ ~Grabbed /\ \E w \in Windows : DestroyNotify(w)
    \/ ~Grabbed /\ \E l \in {LtTile, LtFloat} : KeySetLayout(l)
    \/ ~Grabbed /\ \E c \in Windows : MovePress(c)
    \/ \E ptr \in MovePointers : MoveMotion(ptr)
    \/ MoveRelease

SpecMove == InitMove /\ [][NextMove]_vars

\* Both loops, with the time between MotionNotify events.  XMaskEvent takes
\* pointer events, Expose and the redirected requests from the queue; every
\* other event waits until the loop has ended.  Expose and ButtonPress
\* change no client and are left out.
LoopProfiles(w) == {Plain}

\* where MotionNotify reports the pointer
LoopPointers == {<<700, 400>>}

\* milliseconds since the last MotionNotify that was not skipped
MotionTimes == {16, 17}

InitLoop == InitOn({Display(1)})

NextLoop ==
    \/ \E w \in Windows : \E wa \in LoopProfiles(w) : MapRequest(w, wa)
    \/ \E c \in Requesters : \E ev \in Requests : ConfigureRequest(c, ev)
    \/ ~Grabbed /\ \E w \in Windows : DestroyNotify(w)
    \/ ~Grabbed /\ \E c \in Windows : MovePress(c)
    \/ ~Grabbed /\ \E c \in Windows : ResizePress(c)
    \/ \E ptr \in LoopPointers : \E dt \in MotionTimes : LoopMotion(ptr, dt)
    \/ LoopRelease

SpecLoop == InitLoop /\ [][NextLoop]_vars

\* ConfigureRequests on two monitors with different layouts.
ConfProfiles(w) == IF w % 2 = 1 THEN {Plain} ELSE {Dialog(1)}

InitConf == InitOn({Display(MaxScreens)})

NextConf ==
    \/ \E w \in Windows : \E wa \in ConfProfiles(w) : MapRequest(w, wa)
    \/ \E w \in Windows : DestroyNotify(w)
    \/ \E c \in Requesters : \E ev \in Requests : ConfigureRequest(c, ev)
    \/ \E l \in {LtTile, LtFloat} : KeySetLayout(l)
    \/ \E i \in Dirs : KeyFocusMon(i)
    \/ \E i \in Dirs : KeyTagMon(i)

SpecConf == InitConf /\ [][NextConf]_vars

(***************************************************************************)
(* Properties of the lists, the focus stack and the selection.             *)
(***************************************************************************)
\* how often c occurs in seq
Count(seq, c) == Cardinality({k \in 1 .. Len(seq) : seq[k] = c})

InSeq(seq, c) == \E k \in 1 .. Len(seq) : seq[k] = c

\* C1: every managed client is exactly once in the client list and exactly
\* once in the focus stack of the monitor its mon field names and in no
\* other monitor's lists; every focus stack entry is a managed client of
\* that monitor's client list.
C1_ListsConsistent ==
    /\ \A c \in DOMAIN clients :
          /\ clients[c].mon \in 1 .. Len(mons)
          /\ \A i \in 1 .. Len(mons) :
                /\ Count(mons[i].clients, c) = IF i = clients[c].mon THEN 1 ELSE 0
                /\ Count(mons[i].stack, c) = IF i = clients[c].mon THEN 1 ELSE 0
    /\ \A i \in 1 .. Len(mons) : \A k \in 1 .. Len(mons[i].stack) :
          /\ mons[i].stack[k] \in DOMAIN clients
          /\ InSeq(mons[i].clients, mons[i].stack[k])

\* two clients sent to the monitor that is not selected, focus order and
\* client order apart
C1_Witness ==
    /\ Len(mons) = 2
    /\ selmon = 1
    /\ Cardinality(DOMAIN clients) = 2
    /\ \A c \in DOMAIN clients : clients[c].mon = 2
    /\ mons[2].stack # mons[2].clients
    /\ mons[1].clients = <<>>

\* C3: each monitor's selected_client is null or a managed client that is in
\* that same monitor's client list and focus stack.
C3_SelContained ==
    \A i \in 1 .. Len(mons) :
        \/ mons[i].selected_client = NULL
        \/ /\ mons[i].selected_client \in DOMAIN clients
           /\ clients[mons[i].selected_client].mon = i
           /\ InSeq(mons[i].clients, mons[i].selected_client)
           /\ InSeq(mons[i].stack, mons[i].selected_client)

\* the monitor that is not selected was sent a client, and its selection is
\* still its own earlier client, further down its focus stack
C3_Witness ==
    /\ Len(mons) = 2
    /\ \E i \in 1 .. 2 :
          /\ i # selmon
          /\ Len(mons[i].stack) = 2
          /\ mons[i].selected_client # NULL
          /\ mons[i].selected_client # Head(mons[i].stack)

\* C2: on every monitor, selected or not, a non-null selected_client is the
\* first visible client of that monitor's focus stack.
C2_SelFirstVisible ==
    \A i \in 1 .. Len(mons) :
        mons[i].selected_client # NULL
            => mons[i].selected_client = FirstVisible(St, mons[i].stack)

(***************************************************************************)
(* Properties of tags and views.                                           *)
(***************************************************************************)
\* C10: every managed client's tags are non-empty and within TAGMASK, and
\* toggletag of the selected client's only tag changes nothing.
C10_TagsValid ==
    /\ \A c \in DOMAIN clients :
          clients[c].tags # {} /\ clients[c].tags \subseteq TAGMASK
    /\ \A ui \in FirstTagKey :
          (Sel(St) # NULL /\ clients[Sel(St)].tags = ui) => toggletag(St, ui) = St

\* on the second monitor a client of every tag, by tag(~0), is selected
\* next to a client the rules or its parent gave one tag; on the first
\* monitor the selected client's only tag is the one toggletag is bound to
C10_Witness ==
    /\ Len(mons) = 2
    /\ \E c \in DOMAIN clients : \E d \in DOMAIN clients :
          /\ clients[c].tags = TAGMASK
          /\ clients[c].mon = 2
          /\ Cardinality(clients[d].tags) = 1
    /\ \E ui \in FirstTagKey : Sel(St) # NULL /\ clients[Sel(St)].tags = ui

\* the masks view is called with: 0, 1 << i for the bound tag keys, and ~0
ViewMasks == TagKeys \cup {{}, AllBits}

\* view(mask) followed by view(prev)
ViewTwice(s, mask, prev) == view(view(s, mask), prev)

ViewRestores(s, s2) ==
    /\ CurTags(SelMon(s2)) = CurTags(SelMon(s))
    /\ Sel(s2) = Sel(s)

\* C6: for every mask other than the current tagset prev, view(mask) then
\* view(prev) restores tagset[seltags] and the selected client.
C6_ViewInvolution ==
    \A mask \in ViewMasks :
        ViewMask(mask) # CurTags(SelMon(St))
            => ViewRestores(St, ViewTwice(St, mask, CurTags(SelMon(St))))

\* the client the first view selected is none, the one selected before, or
\* hidden again under prev
ViewKeeps(s, s1) ==
    \/ Sel(s1) = NULL
    \/ Sel(s1) = Sel(s)
    \/ s1.cl[Sel(s1)].tags \cap CurTags(SelMon(s)) = {}

ViewRestoresTags(s, s2) == CurTags(SelMon(s2)) = CurTags(SelMon(s))

\* C6 as amended: the tagset is always restored; the selected client is
\* restored when the client selected under mask is the one selected before
\* or is not visible under prev.
C6_ViewInvolutionHidden ==
    \A mask \in ViewMasks :
        ViewMask(mask) # CurTags(SelMon(St))
            => /\ ViewRestoresTags(St, ViewTwice(St, mask, CurTags(SelMon(St))))
               /\ ViewKeeps(St, view(St, mask))
                    => ViewRestores(St, ViewTwice(St, mask, CurTags(SelMon(St))))

\* two clients and a mask under which view selects the other client, which
\* prev hides again
C6_Witness ==
    /\ Cardinality(DOMAIN clients) = 2
    /\ Sel(St) # NULL
    /\ \E mask \in ViewMasks :
          /\ ViewMask(mask) # CurTags(SelMon(St))
          /\ Sel(view(St, mask)) \notin {NULL, Sel(St)}
          /\ clients[Sel(view(St, mask))].tags \cap CurTags(SelMon(St)) = {}

(***************************************************************************)
(* Properties of fullscreen.                                               *)
(***************************************************************************)
\* setfullscreen(c, 1) followed by setfullscreen(c, 0)
FullscreenRoundTrip(s, c) == setfullscreen(setfullscreen(s, c, TRUE), c, FALSE)

\* rectangle, border width and floating flag of b are those of a
SameLook(a, b) ==
    /\ b.x_pos = a.x_pos /\ b.y_pos = a.y_pos
    /\ b.width = a.width /\ b.height = a.height
    /\ b.bw = a.bw
    /\ b.isfloating = a.isfloating

\* C4: for every managed client that is not fullscreen, floating or tiled,
\* entering fullscreen and then leaving it leaves the client's rectangle,
\* border width and floating flag as they were, with isfullscreen false.
C4_FullscreenRoundTrip ==
    \A c \in DOMAIN clients :
        ~clients[c].isfullscreen =>
            /\ SameLook(clients[c], FullscreenRoundTrip(St, c).cl[c])
            /\ ~FullscreenRoundTrip(St, c).cl[c].isfullscreen

Fullscreen == {c \in DOMAIN clients : clients[c].isfullscreen}

\* the rectangle of cl is the screen area of monitor m
CoversScreen(cl, m) ==
    /\ cl.x_pos = m.mon_x /\ cl.y_pos = m.mon_y
    /\ cl.width = m.mon_width /\ cl.height = m.mon_height

\* C5: at most one client is fullscreen, a fullscreen client's rectangle is
\* the screen area of its monitor, and every fullscreen client is floating
\* with bw = 0.
C5_FullscreenState ==
    /\ Cardinality(Fullscreen) <= 1
    /\ \A c \in Fullscreen :
          /\ CoversScreen(clients[c], mons[clients[c].mon])
          /\ clients[c].isfloating
          /\ clients[c].bw = 0

\* cl as setfullscreen(c, 1) leaves it, on the monitors ms
Entered(cl, ms) ==
    /\ cl.isfullscreen
    /\ cl.isfloating
    /\ cl.bw = 0
    /\ CoversScreen(cl, ms[cl.mon])

\* C5, amended: any number of clients may be fullscreen; every fullscreen
\* client is floating; and a client that enters fullscreen gets the screen
\* area of its monitor as its rectangle and bw = 0 at that moment.
C5_FullscreenFloating ==
    /\ \A c \in Fullscreen : clients[c].isfloating
    /\ \A c \in DOMAIN clients :
          ~clients[c].isfullscreen => Entered(setfullscreen(St, c, TRUE).cl[c], mons)

\* two fullscreen clients: one was given a border by a ConfigureRequest, the
\* other was sent to the other monitor and kept its rectangle
C5_Witness ==
    \E c, d \in Fullscreen :
        /\ c # d
        /\ clients[c].bw = 3
        /\ ~CoversScreen(clients[d], mons[clients[d].mon])
        /\ clients[d].bw = 0

(***************************************************************************)
(* Properties of the arrangers.                                            *)
(***************************************************************************)
Tilers == {"tile", "monocle", "bstack", "bstackhoriz"}

\* the rectangle of cl lies in the work area of m widened by window_gap
InWorkArea(cl, m) ==
    /\ cl.x_pos >= m.window_x - window_gap
    /\ cl.y_pos >= m.window_y - window_gap
    /\ cl.x_pos + cl.width <= m.window_x + m.window_width + window_gap
    /\ cl.y_pos + cl.height <= m.window_y + m.window_height + window_gap

\* the rectangles of a and b share no pixel
Disjoint(a, b) ==
    \/ a.x_pos + a.width <= b.x_pos
    \/ b.x_pos + b.width <= a.x_pos
    \/ a.y_pos + a.height <= b.y_pos
    \/ b.y_pos + b.height <= a.y_pos

\* the tiled clients tl of monitor i in state s lie in its work area
AllInWorkArea(s, i, tl) ==
    \A k \in 1 .. Len(tl) : InWorkArea(s.cl[tl[k]], s.mons[i])

AllDisjoint(s, tl) ==
    \A k, l \in 1 .. Len(tl) : k < l => Disjoint(s.cl[tl[k]], s.cl[tl[l]])

\* C7 as stated, of the state s that arrange(M) leaves, M = monitor i
ContainedDisjoint(s, i) ==
    LtArrange(s.mons[i]) \in Tilers =>
        /\ AllInWorkArea(s, i, nexttiled(s, i))
        /\ AllDisjoint(s, nexttiled(s, i))

Roomy(m, n) ==
    n * (bh + 2 * borderpx)
        <= FMul(MIN(m.window_width, m.window_height), MIN(m.mfact, FOne - m.mfact))

\* the base and minimum size hints of cl do not exceed bh
SmallHints(cl) ==
    /\ cl.basew <= bh /\ cl.baseh <= bh
    /\ cl.minw <= bh /\ cl.minh <= bh

HintsFit(s, i, tl) ==
    /\ Roomy(s.mons[i], Len(tl))
    /\ \A k \in 1 .. Len(tl) : SmallHints(s.cl[tl[k]]) /\ s.cl[tl[k]].bw = borderpx

ContainedDisjointTiled(s, i) ==
    (LtArrange(s.mons[i]) \in Tilers /\ HintsFit(s, i, nexttiled(s, i))) =>
        /\ AllInWorkArea(s, i, nexttiled(s, i))
        /\ LtArrange(s.mons[i]) # "monocle" => AllDisjoint(s, nexttiled(s, i))

Rect(cl) == <<cl.x_pos, cl.y_pos, cl.width, cl.height>>

NoSizeHints(cl) ==
    /\ cl.basew = 0 /\ cl.baseh = 0 /\ cl.incw = 0 /\ cl.inch = 0
    /\ cl.maxw = 0 /\ cl.maxh = 0 /\ cl.minw = 0 /\ cl.minh = 0
    /\ cl.mina[1] = 0 /\ cl.maxa[1] = 0

\* tile, nmaster 1, mfact 0.55, a 1920x1080 work area at the origin and
\* exactly the two tiled clients tl, with border 1 and without size hints
TwoTiled(m, tl) ==
    /\ LtArrange(m) = "tile"
    /\ m.nmaster = 1 /\ m.mfact = mfact
    /\ m.window_x = 0 /\ m.window_y = 0
    /\ m.window_width = 1920 /\ m.window_height = 1080
    /\ Len(tl) = 2
    /\ \A k \in 1 .. Len(tl) : NoSizeHints(clients[tl[k]]) /\ clients[tl[k]].bw = 1

MasterAndStack(s, tl, master, stack) ==
    /\ Rect(s.cl[tl[1]]) = master
    /\ Rect(s.cl[tl[2]]) = stack

\* C8: in that scene arrange gives the master client x=6, y=6, w=1042,
\* h=1066 and the stack client x=1056, y=6, w=856, h=1066.
C8_TileTwo ==
    \A i \in 1 .. Len(mons) :
        TwoTiled(mons[i], nexttiled(St, i)) =>
            MasterAndStack(arrange(St, i), nexttiled(St, i),
                           <<6, 6, 1042, 1066>>, <<1056, 6, 856, 1066>>)

\* C8, amended: the master client gets x=6, y=6, w=1042, h=1066 and the
\* stack client x=1062, y=6, w=850, h=1066: the stack column starts at
\* floor(1920*0.55) = 1056 and resizeclient moves it in by window_gap and
\* narrows it by 2*window_gap.
C8_TileTwoGapped ==
    \A i \in 1 .. Len(mons) :
        TwoTiled(mons[i], nexttiled(St, i)) =>
            MasterAndStack(arrange(St, i), nexttiled(St, i),
                           <<6, 6, 1042, 1066>>, <<1062, 6, 850, 1066>>)

\* the bar is hidden and two clients without size hints are tiled
C8_Witness ==
    /\ ~mons[1].showbar
    /\ TwoTiled(mons[1], nexttiled(St, 1))
    /\ Rect(clients[nexttiled(St, 1)[2]]) = <<1062, 6, 850, 1066>>

\* the one tiled client tl[1] of monitor m has the work area of m as its
\* rectangle and an X border of width 0
FillsWorkArea(s, m, tl) ==
    /\ Rect(s.cl[tl[1]]) =
           <<m.window_x, m.window_y, m.window_width, m.window_height>>
    /\ s.cl[tl[1]].xbw = 0

\* C9: under monocle with exactly one visible tiled client, after arrange
\* the client's rectangle is its monitor's work area exactly, its border
\* width is 0 and no gap is applied.
C9_MonocleSingle ==
    \A i \in 1 .. Len(mons) :
        (LtArrange(mons[i]) = "monocle" /\ Len(nexttiled(St, i)) = 1) =>
            FillsWorkArea(arrange(St, i), mons[i], nexttiled(St, i))

(***************************************************************************)
(* Properties of manage and the client messages.                           *)
(***************************************************************************)
\* the OR of the tags of the rules that class matches
RuleOr(class) ==
    UNION {rules[k].tags : k \in {j \in 1 .. Len(rules) : strstr(class, rules[j].class)}}

\* the window attributes of the windows that are not transient
RuleWindows == {Plain, Firefox, Gimp, GimpFirefox, Terminal}

\* the client cl that manage made of a window of class class in state s:
\* its tags are the rules' tags, or the tagset its monitor had
ManagedTags(s, cl, class) ==
    cl.tags = IF RuleOr(class) \cap TAGMASK # {}
              THEN RuleOr(class) \cap TAGMASK
              ELSE CurTags(s.mons[cl.mon])

\* client c of state s is visible exactly when its tags meet the tagset of
\* its monitor; manage has then selected it, and has not otherwise
VisibleByTags(s, c) ==
    /\ ISVISIBLE(s, c) <=> (s.cl[c].tags \cap CurTags(s.mons[s.cl[c].mon]) # {})
    /\ (Sel(s) = c) <=> (s.cl[c].tags \cap CurTags(s.mons[s.cl[c].mon]) # {})

\* s1 is s after manage of window w with the attributes wa
ManagedByRules(s, s1, w, wa) ==
    /\ ManagedTags(s, s1.cl[w], wa.class)
    /\ VisibleByTags(s1, w)
    /\ wa = Firefox => s1.cl[w].tags = {8}

\* C11: after manage of a window that is not transient the client's tags
\* are the OR of the tags of all matching rules within TAGMASK (1 << 8 for
\* a window matching only the Firefox rule), or the current tagset of its
\* monitor when that OR is zero; and the client is visible exactly when its
\* tags intersect that tagset.
C11_RuleTags ==
    \A w \in Windows \ Managed(St) : \A wa \in RuleWindows :
        ManagedByRules(St, manage(St, w, wa), w, wa)

\* a Firefox window was managed while tag 9 was not viewed and is hidden;
\* the other window matched no tag and took the tagset of the second tag key
C11_Witness ==
    /\ 1 \in Managed(St) /\ 2 \in Managed(St)
    /\ clients[1].tags = {8}
    /\ ~ISVISIBLE(St, 1)
    /\ clients[2].tags = {1}

\* s1 is s after a _NET_ACTIVE_WINDOW message for client c of monitor i,
\* which m was before
Activated(m, s1, c, i) ==
    /\ s1.mons[i].seltags = 1 - m.seltags
    /\ CurTags(s1.mons[i]) = s1.cl[c].tags
    /\ s1.mons[i].tagset[m.seltags + 1] = CurTags(m)
    /\ s1.mons[i].selected_client = c
    /\ Head(s1.mons[i].stack) = c
    /\ Head(s1.mons[i].clients) = c
    /\ s1.selmon = i
    /\ s1.cl[c].mon = i

\* C12: a _NET_ACTIVE_WINDOW message for a managed client that is not
\* visible flips its monitor's seltags, makes tagset[seltags] the client's
\* tags and keeps the former tagset in the other slot; the client becomes
\* selected_client, head of the focus stack and of the client list, and its
\* monitor the selected monitor.
C12_ActivateHidden ==
    \A c \in DOMAIN clients :
        ~ISVISIBLE(St, c) =>
            Activated(mons[clients[c].mon], clientmessage_active(St, c), c, clients[c].mon)

\* a hidden client on the monitor that is not selected, behind another
\* client in both lists
C12_Witness ==
    \E c \in DOMAIN clients :
        /\ ~ISVISIBLE(St, c)
        /\ clients[c].mon # selmon
        /\ Len(mons[clients[c].mon].clients) = 2
        /\ Head(mons[clients[c].mon].clients) # c
        /\ Head(mons[clients[c].mon].stack) # c
        /\ clientmessage_active(St, c).selmon = clients[c].mon

(***************************************************************************)
(* Urgency.                                                                *)
(***************************************************************************)
\* the client is urgent: its flag, or the urgency bit of its WM_HINTS
LeftUrgent(s, c) == s.cl[c].isurgent \/ s.cl[c].xurgent

\* s1 is the state after client c, not focused in s, got urgent WM_HINTS
FlaggedUrgent(s, s1, c) == Sel(s) # c => s1.cl[c].isurgent

\* s1 is the state after focus(c): if c got the focus it is not urgent
FocusClears(s1, c) == Sel(s1) = c => ~LeftUrgent(s1, c)

SelMfact(s) == SelMon(s).mfact

\* the arguments setmfact is applied to: those of the specification, and
\* -0.25 and +0.25
AnyMfactArgs == MfactArgs \cup {0 - FOne \div 4, FOne \div 4}

MfactSetOrKept(s, s1, f) ==
    SelMfact(s1) = IF MfactOutside(MfactTarget(f, SelMfact(s)))
                   THEN SelMfact(s) ELSE MfactTarget(f, SelMfact(s))

MfactAccepted(s, f) ==
    LtArrange(SelMon(s)) # "NULL" /\ ~MfactOutside(MfactTarget(f, SelMfact(s)))

\* what one press of a setmfact key makes of mfact m
MfactPress(m, f) == IF MfactOutside(MfactTarget(f, m)) THEN m ELSE MfactTarget(f, m)

\* the values mfact takes when only the two keys of config.h change it
RECURSIVE MfactClosure(_)
MfactClosure(S) ==
    IF {MfactPress(m, f) : m \in S, f \in MfactKeys} \subseteq S THEN S
    ELSE MfactClosure(S \cup {MfactPress(m, f) : m \in S, f \in MfactKeys})

KeyMfacts == MfactClosure({mfact})

\* s1 is the state after setmfact(f) in s: setmfact(-f) gives back mfact of s
MfactBack(s, s1, f) == SelMfact(setmfact(s1, 0 - f)) = SelMfact(s)

ProposedRects ==
    {<<x, y, w, h>> : x \in {-300, 100, 2000}, y \in {-200, 100},
                      w \in {0, 100, 500}, h \in {100, 333}}

\* the rectangle of a result of applysizehints
OutRect(r) == <<r.x, r.y, r.w, r.h>>

\* applysizehints applied to its own output r gives r again
SameAgain(s, c, r, interact) ==
    OutRect(applysizehints(s, c, r.x, r.y, r.w, r.h, interact)) = OutRect(r)

\* s1 is the state after resize() committed r: applysizehints on r returns 0
NoChangeAfter(s1, c, r, interact) ==
    ~applysizehints(s1, c, r.x, r.y, r.w, r.h, interact).changed

Idempotent(s, c, r, interact) ==
    /\ SameAgain(s, c, r, interact)
    /\ NoChangeAfter(ResizeTo(s, c, r), c, r, interact)

\* C16 as stated: applysizehints applied to the rectangle it produced gives
\* the same rectangle, and returns 0 once resize() has committed it.
C16_Idempotent ==
    \A c \in DOMAIN clients : \A p \in ProposedRects : \A interact \in BOOLEAN :
        Idempotent(St, c, applysizehints(St, c, p[1], p[2], p[3], p[4], interact),
                   interact)

(***************************************************************************)
(* The life of a client.                                                   *)
(***************************************************************************)
\* window w is in no client list and no focus stack of s
InNoList(s, w) ==
    \A i \in 1 .. Len(s.mons) :
        /\ \A k \in 1 .. Len(s.mons[i].clients) : s.mons[i].clients[k] # w
        /\ \A k \in 1 .. Len(s.mons[i].stack) : s.mons[i].stack[k] # w

\* s1 is s after a synthetic UnmapNotify for w: nothing but WM_STATE changed
OnlyWithdrawn(s, s1, w) ==
    /\ s1 = SetCl(s, w, [s.cl[w] EXCEPT !.wmstate = "WithdrawnState"])
    /\ ~InNoList(s1, w)

\* s1 is s after a UnmapNotify of the server for w: unmanage(w, 0)
Unmanaged(s, s1, w) ==
    /\ s1 = unmanage(s, w, FALSE)
    /\ w \notin Managed(s1)
    /\ InNoList(s1, w)

\* C17: a synthetic UnmapNotify for a managed window leaves the client
\* managed and in both lists and only sets WM_STATE to Withdrawn; any other
\* UnmapNotify unmanages the client (destroyed = 0) and removes it from both
\* lists.
C17_UnmapNotify ==
    \A w \in DOMAIN clients :
        /\ OnlyWithdrawn(St, unmapnotify(St, w, TRUE), w)
        /\ Unmanaged(St, unmapnotify(St, w, FALSE), w)

\* a client that got a synthetic UnmapNotify and is still managed, next to
\* another client on its monitor
C17_Witness ==
    \E w \in DOMAIN clients :
        /\ clients[w].wmstate = "WithdrawnState"
        /\ Len(mons[clients[w].mon].clients) = 2
        /\ Head(mons[clients[w].mon].stack) # w

\* C18 as stated: the client of a window is removed on a synthetic
\* UnmapNotify, on DestroyNotify and on shutdown.
C18_RemovedOnSynthetic ==
    \A w \in DOMAIN clients :
        /\ w \notin Managed(unmapnotify(St, w, TRUE))
        /\ w \notin Managed(destroynotify(St, w))
        /\ w \notin Managed(cleanup(St))

\* the state after the step
StAfter == [mons |-> mons', cl |-> clients', selmon |-> selmon',
            sw |-> scr'.sw, sh |-> scr'.sh, grab |-> scr'.grab,
            running |-> scr'.running, exit |-> scr'.exit,
            netclientlist |-> scr'.netclientlist]

\* the handlers that remove the client of w
Removal(s, s1, w) ==
    \/ s1 = unmapnotify(s, w, FALSE)
    \/ s1 = destroynotify(s, w)
    \/ s1 = mainexit(s)

\* the client of w exists after manage and after a synthetic UnmapNotify,
\* and is gone after another UnmapNotify, DestroyNotify and cleanup
Lifetime(s, w) ==
    /\ w \in Managed(unmapnotify(s, w, TRUE))
    /\ w \notin Managed(unmapnotify(s, w, FALSE))
    /\ w \notin Managed(destroynotify(s, w))
    /\ w \notin Managed(cleanup(s))

\* C18 amended: a client exists from manage on; it is removed by an
\* UnmapNotify that is not synthetic, by DestroyNotify and by cleanup at
\* shutdown, a synthetic UnmapNotify does not remove it, and no other step
\* makes a managed client disappear.
C18_Lifecycle ==
    /\ [](\A w \in DOMAIN clients : Lifetime(St, w))
    /\ [](Running =>
           \A w \in Windows \ DOMAIN clients : w \in Managed(maprequest(St, w, Plain)))
    /\ [][\A w \in DOMAIN clients :
              w \notin DOMAIN clients' => Removal(St, StAfter, w)]_vars

\* two clients, one of them still managed after a synthetic UnmapNotify
C18_Witness ==
    /\ Cardinality(DOMAIN clients) = 2
    /\ \E w \in DOMAIN clients :
           /\ clients[w].wmstate = "WithdrawnState"
           /\ w \notin Managed(unmapnotify(St, w, FALSE))
    /\ Managed(cleanup(St)) = {}

(***************************************************************************)
(* One client per window.                                                  *)
(***************************************************************************)
\* the places of window w in the client lists, and in the focus stacks
InClients(s, w) ==
    {<<i, k>> \in (1 .. Len(s.mons)) \X (1 .. MaxWin) :
        k <= Len(s.mons[i].clients) /\ s.mons[i].clients[k] = w}

InStacks(s, w) ==
    {<<i, k>> \in (1 .. Len(s.mons)) \X (1 .. MaxWin) :
        k <= Len(s.mons[i].stack) /\ s.mons[i].stack[k] = w}

\* every managed window has one client, linked once into one client list
\* and one focus stack, and no list is longer than the number of windows
OneClientEach(s) ==
    /\ \A w \in Windows :
           /\ Cardinality(InClients(s, w)) = IF w \in Managed(s) THEN 1 ELSE 0
           /\ Cardinality(InStacks(s, w)) = IF w \in Managed(s) THEN 1 ELSE 0
    /\ \A i \in 1 .. Len(s.mons) :
           Len(s.mons[i].clients) <= MaxWin /\ Len(s.mons[i].stack) <= MaxWin

\* s1 is s after a MapRequest for w with attributes wa
ManagedIff(s, s1, w, wa) ==
    IF ~wa.override_redirect /\ w \notin Managed(s)
    THEN s1 = manage(s, w, wa) /\ w \in Managed(s1) /\ OneClientEach(s1)
    ELSE s1 = s

\* the windows scan() may find at startup, in both orders
ScanLists ==
    {<<[win |-> 1, wa |-> Plain, mapped |-> TRUE],
       [win |-> 2, wa |-> Dialog(1), mapped |-> TRUE]>>,
     <<[win |-> 2, wa |-> Dialog(1), mapped |-> TRUE],
       [win |-> 1, wa |-> Plain, mapped |-> TRUE]>>,
     <<[win |-> 1, wa |-> Popup, mapped |-> TRUE],
       [win |-> 2, wa |-> Terminal, mapped |-> FALSE]>>}

ConfRequests ==
    Requests \cup
    {[mask |-> {"CWBorderWidth", "CWX", "CWY", "CWWidth", "CWHeight"}, x |-> 50,
      y |-> 60, width |-> 640, height |-> 480, border_width |-> 3],
     [mask |-> {"CWX", "CWY"}, x |-> 1200, y |-> 700, width |-> 0, height |-> 0,
      border_width |-> 0]}

\* what the mask of ev names is in c1, x and y relative to the origin of m
Applied(ev, c1, m) ==
    /\ "CWX" \in ev.mask => c1.x_pos = m.mon_x + ev.x
    /\ "CWY" \in ev.mask => c1.y_pos = m.mon_y + ev.y
    /\ "CWWidth" \in ev.mask => c1.width = ev.width
    /\ "CWHeight" \in ev.mask => c1.height = ev.height
    /\ "CWBorderWidth" \in ev.mask => c1.bw = ev.border_width

\* s1 is s after the ConfigureRequest ev for window w
Configured(s, s1, w, ev) ==
    IF w \notin Managed(s) THEN s1 = s
    ELSE IF s.cl[w].isfloating \/ LtArrange(MonOf(s, w)) = "NULL"
    THEN Applied(ev, s1.cl[w], MonOf(s, w))
    ELSE Rect(s1.cl[w]) = Rect(s.cl[w])

\* C20 as stated: a ConfigureRequest on a floating client, or on a client
\* whose monitor has no arrange function, applies everything its mask
\* names; on a tiled client under an arrange function it leaves x, y, width
\* and height alone; for a window without a client nothing changes.
C20_ConfigureRequest ==
    \A w \in Windows : \A ev \in ConfRequests :
        Configured(St, configurerequest(St, w, ev), w, ev)

(***************************************************************************)
(* _NET_WM_STATE client messages.                                          *)
(***************************************************************************)
\* _NET_WM_STATE_REMOVE, _NET_WM_STATE_ADD, _NET_WM_STATE_TOGGLE
StateActions == 0 .. 2

\* s1 is s after a _NET_WM_STATE message for c with data.l[0] = action
StateApplied(s, s1, c, action) ==
    LET was == s.cl[c].isfullscreen
    IN  /\ s1.cl[c].isfullscreen <=> (action = 1 \/ (action = 2 /\ ~was))
        /\ (action = 1 /\ was) => s1 = s
        /\ (action = 0 /\ ~was) => s1 = s

\* C21: after a _NET_WM_STATE message naming _NET_WM_STATE_FULLSCREEN the
\* client is fullscreen iff the action was add, or toggle on a client that
\* was not fullscreen; add on a fullscreen client and remove on a client
\* that is not fullscreen change nothing.
C21_StateMessage ==
    \A c \in Managed(St) : \A action \in StateActions :
        StateApplied(St, clientmessage_state(St, c, action), c, action)

\* one client is fullscreen after a message, another has been fullscreen
\* and has left it again
C21_Witness ==
    \E c, d \in DOMAIN clients :
        /\ clients[c].isfullscreen
        /\ ~clients[d].isfullscreen
        /\ clients[d].oldbw = borderpx

(***************************************************************************)
(* The monitor list under topology updates.                                *)
(***************************************************************************)
\* selected_monitor is a monitor of the list
SelValid(s) == s.selmon \in 1 .. Len(s.mons)

\* s with the root window's new size, as configurenotify hands it to updategeom
Resized(s, d) == [s EXCEPT !.sw = d.width, !.sh = d.height]

\* C22: the selected monitor is always one monitor of the monitor list, and
\* it still is after any topology update, with monitors added or removed.
C22_SelectedMonitor ==
    /\ SelValid(St)
    /\ \A d \in Displays : \A ptr \in Pointers(d.width, d.height) :
          SelValid(updategeom(Resized(St, d), d.info, ptr).s)

\* the second monitor has been removed: a client it held is now on the one
\* monitor left, still at its place on the second screen
C22_Witness ==
    /\ Len(mons) = 1
    /\ selmon = 1
    /\ \E c \in DOMAIN clients : clients[c].x_pos >= ScreenAt(2).x


\* one larger screen in place of the others
Wide == [width |-> 2560, height |-> 1440,
         info |-> <<[x |-> 0, y |-> 0, w |-> 2560, h |-> 1440]>>]

\* one monitor per unique screen
OnePerScreen(s1, unique) == Len(s1.mons) = Len(unique)

\* each monitor has the geometry of the unique screen at its index
GeometryOfScreens(s1, unique) ==
    \A i \in 1 .. MIN(Len(s1.mons), Len(unique)) : ~GeomDiffers(s1.mons[i], unique[i])

\* the clients of the monitors of s beyond the nn-th are on the first monitor
Migrated(s, s1, nn) ==
    \A i \in (nn + 1) .. Len(s.mons) :
        \A k \in 1 .. Len(s.mons[i].clients) :
            LET c == s.mons[i].clients[k]
            IN  /\ s1.cl[c].mon = 1
                /\ InSeq(s1.mons[1].clients, c)
                /\ InSeq(s1.mons[1].stack, c)

\* the number of monitors of s or the geometry of one of them is not that
\* of the unique screens
TopologyChanged(s, unique) ==
    \/ Len(s.mons) # Len(unique)
    \/ \E i \in 1 .. MIN(Len(s.mons), Len(unique)) : GeomDiffers(s.mons[i], unique[i])

\* r = [s, dirty] is what updategeom returns in s for the screens unique
TopologyUpdated(s, r, unique) ==
    /\ OnePerScreen(r.s, unique)
    /\ GeometryOfScreens(r.s, unique)
    /\ Migrated(s, r.s, Len(unique))
    /\ TopologyChanged(s, unique) => r.dirty

\* C23 as stated: after updategeom there is one monitor per unique screen,
\* each with the geometry of the unique screen at its index, the clients of
\* removed monitors are on the first monitor, and every change of geometry
\* or count is reported as dirty.
C23_TopologyUpdate ==
    \A d \in Displays \cup {Wide} : \A ptr \in Pointers(d.width, d.height) :
        TopologyUpdated(St, updategeom(Resized(St, d), d.info, ptr),
                        uniquegeom(d.info, <<>>))

(***************************************************************************)
(* quit, the loop of run, and the end of main.                             *)
(***************************************************************************)
\* the process has returned from main with status 0 after cleanup
ExitedClean ==
    /\ scr.exit = "EXIT_SUCCESS"
    /\ mons = <<>>
    /\ clients = <<>>

\* C24: once quit has cleared the flag, the handler that ran quit has done
\* nothing else, no other handler is run, the only step left is main's
\* cleanup and return, and the process does end with status 0.
C24_QuitEndsLoop ==
    /\ [][(Running /\ ~Running') => StAfter = quit(St)]_vars
    /\ [][~Running => (scr.exit = "none" /\ StAfter = mainexit(St))]_vars
    /\ []((~Running /\ scr.exit = "none") => mainexit(St) = Exited(St))
    /\ [](scr.exit # "none" => ExitedClean)
    /\ (~Running) ~> ExitedClean

\* quit has been run with two clients managed and the loop has ended;
\* cleanup has not run yet
C24_Witness ==
    /\ ~Running
    /\ scr.exit = "none"
    /\ Cardinality(DOMAIN clients) = 2

(***************************************************************************)
(* focus.                                                                  *)
(***************************************************************************)
\* s1 has client t focused: its monitor selected, t selected there and at
\* the head of the focus stack, t not urgent
Focused(s1, t) ==
    /\ s1.selmon = s1.cl[t].mon
    /\ s1.mons[s1.selmon].selected_client = t
    /\ Head(s1.mons[s1.selmon].stack) = t
    /\ ~s1.cl[t].isurgent

\* the positions of the visible clients in the focus stack of the selected
\* monitor of s
VisibleAt(s) ==
    {k \in 1 .. Len(SelMon(s).stack) : ISVISIBLE(s, SelMon(s).stack[k])}

\* s1 has the first visible client of the focus stack of the monitor
\* selected in s focused, or no client selected there when none is visible
FocusedFallback(s, s1) ==
    IF VisibleAt(s) = {}
    THEN s1.selmon = s.selmon /\ s1.mons[s1.selmon].selected_client = NULL
    ELSE /\ s1.selmon = s.selmon
         /\ Focused(s1, SelMon(s).stack[CHOOSE k \in VisibleAt(s) : \A j \in VisibleAt(s) : k <= j])

\* C25: focus(c) with c visible selects c's monitor, makes c its
\* selected_client and the head of its focus stack and clears c's urgency;
\* focus(NULL) and focus of an invisible client do this for the first
\* visible client of the selected monitor's focus stack, and leave
\* selected_client NULL when there is none.
C25_Focus ==
    /\ FocusedFallback(St, focus(St, NULL))
    /\ \A c \in Managed(St) :
          IF ISVISIBLE(St, c) THEN Focused(focus(St, c), c)
          ELSE FocusedFallback(St, focus(St, c))

\* a visible urgent client on the monitor that is not selected, not selected
\* there, and a client that is not visible
C25_Witness ==
    \E c, d \in DOMAIN clients :
        /\ ISVISIBLE(St, c)
        /\ clients[c].mon # selmon
        /\ clients[c].isurgent
        /\ mons[clients[c].mon].selected_client # c
        /\ ~ISVISIBLE(St, d)

(***************************************************************************)
(* The gap policy of resizeclient.                                         *)
(***************************************************************************)
\* the rectangle resizeclient is called with
GapProbe == [x |-> 100, y |-> 100, w |-> 400, h |-> 300]

\* client cl with X border xbw has the rectangle r moved by offset and
\* shrunk by incr
Gapped(cl, r, offset, incr, xbw) ==
    /\ Rect(cl) = <<r.x + offset, r.y + offset, r.w - incr, r.h - incr>>
    /\ cl.xbw = xbw

\* s1 is s after resizeclient(c, r) with the policy taken from c's floating
\* flag, and the arranger and number of tiled clients of c's own monitor
OwnGapPolicy(s, s1, c, r) ==
    IF s.cl[c].isfloating \/ LtArrange(MonOf(s, c)) = "NULL"
    THEN Gapped(s1.cl[c], r, 0, 0, s.cl[c].bw)
    ELSE IF LtArrange(MonOf(s, c)) = "monocle" \/ Len(nexttiled(s, s.cl[c].mon)) = 1
    THEN Gapped(s1.cl[c], r, 0, 0 - 2 * borderpx, 0)
    ELSE Gapped(s1.cl[c], r, window_gap, 2 * window_gap, s.cl[c].bw)

\* C26 as stated: resizeclient takes the gap policy for c from c's floating
\* flag and from the arranger and the number of tiled clients of c's monitor,
\* whichever monitor is selected.
C26_GapPolicy ==
    \A c \in Managed(St) :
        OwnGapPolicy(St, resizeclient(St, c, GapProbe.x, GapProbe.y, GapProbe.w, GapProbe.h),
                     c, GapProbe)

(***************************************************************************)
(* The window an unmanaged client leaves behind.                           *)
(***************************************************************************)
\* the window of c gets back the border width wa had when it was managed
BorderRestored(s, c, wa) ==
    /\ UnmanageWindow(s, c).border_width = wa.border_width
    /\ UnmanageWindow(s, c).wmstate = "WithdrawnState"

\* C27 as stated: unmanage of a window that is not destroyed restores the
\* border width the window had when it was managed, also after fullscreen,
\* and sets WM_STATE to Withdrawn.
C27_BorderRestored ==
    \A c \in Managed(St) : \A wa \in FullProfiles(c) : BorderRestored(St, c, wa)

(***************************************************************************)
(* The loop of movemouse.                                                  *)
(***************************************************************************)
\* where the MotionNotify at ptr puts the window: the pointer's offset from
\* the press added to the origin, snapped to the edges of the work area
DragX(s, ptr) ==
    MoveSnapX(SelMon(s), s.cl[s.grab.client], s.grab.ocx + (ptr[1] - s.grab.x))

DragY(s, ptr) ==
    MoveSnapY(SelMon(s), s.cl[s.grab.client], s.grab.ocy + (ptr[2] - s.grab.y))

\* under an arrange function the pointer at ptr has dragged the tiled client
\* of the loop further than snap, inside the work area
DraggedFar(s, ptr) ==
    /\ s.grab.client # NULL
    /\ ~s.cl[s.grab.client].isfloating
    /\ LtArrange(SelMon(s)) # "NULL"
    /\ MoveInside(SelMon(s), s.grab.ocx + (ptr[1] - s.grab.x),
                             s.grab.ocy + (ptr[2] - s.grab.y))
    /\ \/ ABS(DragX(s, ptr) - s.cl[s.grab.client].x_pos) > snap
       \/ ABS(DragY(s, ptr) - s.cl[s.grab.client].y_pos) > snap

\* in s1 the client of the loop is floating at the dragged position and
\* every other client has the floating flag it has in s
MovedFloats(s, s1, ptr) ==
    /\ s1.cl[s.grab.client].isfloating
    /\ s1.cl[s.grab.client].x_pos = DragX(s, ptr)
    /\ s1.cl[s.grab.client].y_pos = DragY(s, ptr)
    /\ \A d \in Managed(s) \ {s.grab.client} : s1.cl[d].isfloating = s.cl[d].isfloating

\* C28 as stated: a MotionNotify that has dragged the tiled client of the
\* loop further than snap under an arrange function makes that client
\* floating and moves it with the pointer, also after a MapRequest inside the
\* loop has managed and focused another window, and changes no other
\* client's floating flag.
C28_MovedClientFloats ==
    \A ptr \in MovePointers :
        DraggedFar(St, ptr) => MovedFloats(St, movemouse_motion(St, ptr), ptr)

(***************************************************************************)
(* The loops of movemouse and resizemouse.                                 *)
(***************************************************************************)
\* s1 is s after one event the loop takes without ending
LoopTurn(s, s1) ==
    \/ \E w \in Windows : \E wa \in LoopProfiles(w) : s1 = maprequest(s, w, wa)
    \/ \E c \in Managed(s) : \E ev \in Requests : s1 = configurerequest(s, c, ev)
    \/ \E ptr \in LoopPointers : \E dt \in MotionTimes : s1 = loop_motionnotify(s, ptr, dt)

\* every event the loop hands on or handles itself leaves the loop running,
\* ButtonRelease ends it, and a MotionNotify that comes within 1000/60 ms
\* changes nothing
LoopKept(s) ==
    /\ \A w \in Windows : \A wa \in LoopProfiles(w) : maprequest(s, w, wa).grab = s.grab
    /\ \A c \in Managed(s) : \A ev \in Requests : configurerequest(s, c, ev).grab = s.grab
    /\ \A ptr \in LoopPointers : \A dt \in 0 .. 40 :
          /\ loop_motionnotify(s, ptr, dt).grab = s.grab
          /\ dt <= 16 => loop_motionnotify(s, ptr, dt) = s
    /\ loop_buttonrelease(s).grab = NoGrab

\* C29: a loop that has been entered ends exactly with the ButtonRelease it
\* takes; while it runs, a step is a MapRequest or ConfigureRequest passed
\* to its handler, a MotionNotify or that ButtonRelease; and a
\* MotionNotify within 1000/60 ms of the last one that was not skipped
\* changes nothing.
C29_LoopsEndOnRelease ==
    /\ [](Grabbed => LoopKept(St))
    /\ [][Grabbed => (LoopTurn(St, StAfter) \/ StAfter = loop_buttonrelease(St))]_vars
    /\ [][(Grabbed /\ ~Grabbed') => StAfter = loop_buttonrelease(St)]_vars

\* the loop of resizemouse is running on a client it has made floating,
\* and the other client was managed after the loop had started
C29_Witness ==
    /\ scr.grab.loop = "resize"
    /\ clients[scr.grab.client].isfloating
    /\ Cardinality(DOMAIN clients) = 2
    /\ Sel(St) # scr.grab.client


(***************************************************************************)
(* C30: _NET_CLIENT_LIST of the root window.                               *)
(***************************************************************************)
\* the property holds the ids of the managed clients, each once, and no other
ClientListExact(s) ==
    /\ Managed(s) \subseteq DOMAIN s.netclientlist
    /\ \A w \in DOMAIN s.netclientlist :
           s.netclientlist[w] = IF w \in Managed(s) THEN 1 ELSE 0

\* a handler that manages w appends w to the property and writes nothing else
ClientListAppended ==
    \A w \in Managed(StAfter) \ Managed(St) :
        scr'.netclientlist = AppendClientList(St, w).netclientlist

\* a handler that unmanages a client leaves the property as updateclientlist
\* builds it from the client lists of all monitors
ClientListRebuilt ==
    (Managed(StAfter) # Managed(St) /\ Managed(StAfter) \subseteq Managed(St))
        => scr'.netclientlist = updateclientlist(StAfter).netclientlist

\* C30: after every handler the root window's _NET_CLIENT_LIST holds exactly
\* the windows of the managed clients, each once; manage appends the new
\* window, unmanage rebuilds the list from the client lists of all monitors.
C30_ClientList ==
    /\ [](ClientListExact(St))
    /\ [][ClientListAppended /\ ClientListRebuilt]_vars

\* two clients live in the client lists of two monitors and the property
\* holds both
C30_Witness ==
    /\ \E a, b \in Managed(St) : a # b /\ clients[a].mon # clients[b].mon
    /\ \A w \in Managed(St) : scr.netclientlist[w] = 1


(***************************************************************************)
(* C31: tagmon and focusmon.                                               *)
(***************************************************************************)
\* the arguments config.h binds focusmon and tagmon to
MonKeys == 0 .. 3

\* the monitors whose number is i
Numbered(s, i) == {k \in 1 .. Len(s.mons) : s.mons[k].num = i}

\* the monitor tagmon(i) and focusmon(i) go to: the one whose number is i,
\* and the last monitor of the list when no monitor has that number
MonTarget(s, i) ==
    IF Numbered(s, i) # {} THEN CHOOSE k \in Numbered(s, i) : TRUE ELSE Len(s.mons)

\* r is s after the selected client of s has been sent to monitor t
SentTo(s, r, t) ==
    LET c == Sel(s)
    IN  IF s.cl[c].mon = t THEN r = s
        ELSE /\ r.cl[c].mon = t
             /\ Head(r.mons[t].clients) = c /\ Count(r.mons[t].clients, c) = 1
             /\ Head(r.mons[t].stack) = c /\ Count(r.mons[t].stack, c) = 1
             /\ \A k \in 1 .. Len(r.mons) :
                    k # t => (~InSeq(r.mons[k].clients, c) /\ ~InSeq(r.mons[k].stack, c))
             /\ r.cl[c].tags = CurTags(r.mons[t])
             /\ ISVISIBLE(r, c)
             /\ r.selmon = s.selmon
             /\ Len(r.mons) = Len(s.mons)

\* the claim as it stands: whatever tagmon(i) or focusmon(i) does, it goes to
\* a monitor whose number is i
C31_NumberedMonitor ==
    \A i \in MonKeys :
        /\ (Sel(St) # NULL /\ tagmon(St, i) # St)
               => (/\ MonOf(tagmon(St, i), Sel(St)).num = i
                   /\ SentTo(St, tagmon(St, i), tagmon(St, i).cl[Sel(St)].mon))
        /\ focusmon(St, i) # St => SelMon(focusmon(St, i)).num = i

\* C31: tagmon(i) moves the selected client to the monitor whose number is i,
\* or to the last monitor when no monitor has that number; the client is then
\* at the head of that monitor's client list and focus stack and in no other
\* list, carries that monitor's current tagset and is visible there, and the
\* selected monitor is the same; a client already on the target is left
\* alone.  focusmon(i) selects the same target.  With a single monitor both
\* do nothing.
C31_TagMonFocusMon ==
    /\ \A k \in 1 .. Len(mons) : Numbered(St, mons[k].num) = {k}
    /\ \A i \in MonKeys :
        /\ Sel(St) # NULL => SentTo(St, tagmon(St, i), MonTarget(St, i))
        /\ Sel(St) = NULL => tagmon(St, i) = St
        /\ focusmon(St, i).selmon = IF Len(mons) < 2 THEN selmon ELSE MonTarget(St, i)
        /\ Len(mons) < 2 => (tagmon(St, i) = St /\ focusmon(St, i) = St)

\* two monitors, a selected client on the first, and tagmon(2), which names
\* no monitor, takes it to the second
C31_Witness ==
    /\ Len(mons) = 2 /\ Sel(St) # NULL /\ selmon = 1
    /\ Numbered(St, 2) = {}
    /\ tagmon(St, 2).cl[Sel(St)].mon = 2
    /\ focusmon(St, 3).selmon = 2


(***************************************************************************)
(* C32: togglefloating.                                                    *)
(***************************************************************************)
\* the floating flag of the selected client of s in r
FloatingIn(s, r) == r.cl[Sel(s)].isfloating

\* togglefloating touches the flag of no other client and keeps the selection
ToggleFrame(s, r) ==
    /\ Managed(r) = Managed(s)
    /\ Sel(r) = Sel(s)
    /\ \A d \in Managed(s) \ {Sel(s)} : r.cl[d].isfloating = s.cl[d].isfloating

\* the claim as it stands: every client that is not fullscreen has its flag
\* flipped
C32_ToggleFlips ==
    (Sel(St) # NULL /\ ~clients[Sel(St)].isfullscreen)
        => FloatingIn(St, togglefloating(St)) = ~FloatingIn(St, St)

\* C32: togglefloating does nothing without a selected client or with a
\* fullscreen one; otherwise a tiled client becomes floating, a floating
\* client whose size is not fixed becomes tiled, and a floating client of
\* fixed size stays floating.  Two toggles restore the flag of a client whose
\* size is not fixed and leave a client of fixed size floating.
C32_ToggleFloating ==
    LET c == Sel(St)
        r == togglefloating(St)
        rr == togglefloating(r)
    IN  /\ c = NULL => r = St
        /\ (c # NULL /\ clients[c].isfullscreen) => r = St
        /\ (c # NULL /\ ~clients[c].isfullscreen) =>
              /\ ToggleFrame(St, r) /\ ToggleFrame(r, rr)
              /\ FloatingIn(St, r) = (~clients[c].isfloating \/ clients[c].isfixed)
              /\ ~clients[c].isfixed => FloatingIn(St, rr) = clients[c].isfloating
              /\ clients[c].isfixed => (FloatingIn(St, r) /\ FloatingIn(St, rr))

\* the selected client is a floating dialog of fixed size, and togglefloating
\* leaves it floating
C32_Witness ==
    /\ Sel(St) # NULL
    /\ clients[Sel(St)].isfixed /\ clients[Sel(St)].isfloating
    /\ ~clients[Sel(St)].isfullscreen
    /\ FloatingIn(St, togglefloating(St))
    /\ \E d \in Managed(St) : clients[d].isfullscreen


(***************************************************************************)
(* C33: setlayout and the two layout slots.                                *)
(***************************************************************************)
\* the layouts config.h binds setlayout to; -1 stands for the null argument
LayoutArgs == {LtTile, LtFloat, LtMonocle, LtBstack, LtBstackhoriz}

\* setlayout changes the slots of the selected monitor only
OtherLayoutsKept(s, r) ==
    /\ r.selmon = s.selmon /\ Len(r.mons) = Len(s.mons)
    /\ \A k \in 1 .. Len(s.mons) :
           k # s.selmon => (r.mons[k].lt = s.mons[k].lt /\ r.mons[k].sellt = s.mons[k].sellt)

\* setlayout(l) with a layout
LayoutInstalled(s, l) ==
    LET m == SelMon(s)
        r == setlayout(s, l)
        n == SelMon(r)
    IN  /\ OtherLayoutsKept(s, r)
        /\ CurLt(n) = l
        /\ l = CurLt(m) => (n.sellt = m.sellt /\ n.lt = m.lt)
        /\ l # CurLt(m) =>
              /\ n.sellt = 1 - m.sellt
              /\ n.lt[m.sellt + 1] = CurLt(m)
              /\ CurLt(SelMon(setlayout(r, -1))) = CurLt(m)
              /\ SelMon(setlayout(r, -1)).lt = n.lt

\* setlayout with the null argument, once and twice
LayoutFlipped(s) ==
    LET m  == SelMon(s)
        r  == setlayout(s, -1)
        rr == setlayout(r, -1)
    IN  /\ OtherLayoutsKept(s, r) /\ OtherLayoutsKept(r, rr)
        /\ SelMon(r).lt = m.lt /\ SelMon(r).sellt = 1 - m.sellt
        /\ SelMon(rr).lt = m.lt /\ SelMon(rr).sellt = m.sellt
        /\ CurLt(SelMon(rr)) = CurLt(m)

\* C33: setlayout(L) makes L the active layout of the selected monitor and,
\* when L was not active, keeps the layout that was active in the other slot,
\* where setlayout(null) finds it again; setlayout(null) only flips sellt and
\* twice in a row restores sellt and both slots.
C33_SetLayout ==
    /\ \A l \in LayoutArgs : LayoutInstalled(St, l)
    /\ LayoutFlipped(St)

\* bstack is active in the second slot with tile behind it; monocle goes
\* into the first slot and the null argument comes back to bstack
C33_Witness ==
    /\ SelMon(St).sellt = 1 /\ SelMon(St).lt = <<LtTile, LtBstack>>
    /\ Sel(St) # NULL
    /\ SelMon(setlayout(St, LtMonocle)).lt = <<LtMonocle, LtBstack>>
    /\ CurLt(SelMon(setlayout(setlayout(St, LtMonocle), -1))) = LtBstack


(***************************************************************************)
(* C34: focusstack.                                                        *)
(***************************************************************************)
\* the visible clients of the selected monitor in client-list order
VisibleList(s) == VisibleIn(s, SelMon(s).clients)

\* the visible client k places after the selected one, going round
Around(s, k) ==
    LET vis == VisibleList(s)
    IN  vis[((PosOf(vis, Sel(s)) - 1 + k + Len(vis)) % Len(vis)) + 1]

\* focus moved and nothing else of the lists did
FocusOnly(s, r) ==
    /\ r.selmon = s.selmon
    /\ \A k \in 1 .. Len(s.mons) : r.mons[k].clients = s.mons[k].clients
    /\ VisibleList(r) = VisibleList(s)

\* C34: with a selected client, focusstack(+1) selects the next visible client
\* after it in the client list of the selected monitor, the first visible one
\* after the last, and focusstack(-1) the previous visible one, the last one
\* before the first; the selected client is always a visible one, the client
\* list keeps its order, focusstack(+1) and then focusstack(-1) comes back to
\* the client it started from, and without a selected client nothing happens.
C34_FocusStack ==
    /\ Sel(St) = NULL => \A dir \in {1, -1} : focusstack(St, dir) = St
    /\ Sel(St) # NULL =>
          /\ ISVISIBLE(St, Sel(St))
          /\ \A dir \in {1, -1} :
                 /\ Sel(focusstack(St, dir)) = Around(St, dir)
                 /\ ISVISIBLE(St, Sel(focusstack(St, dir)))
                 /\ FocusOnly(St, focusstack(St, dir))
          /\ Sel(focusstack(focusstack(St, 1), -1)) = Sel(St)

\* two visible clients and a hidden one between them: from the last client
\* focusstack(+1) wraps to the first and the hidden one is passed over
C34_Witness ==
    /\ Sel(St) # NULL
    /\ Len(VisibleList(St)) = 2
    /\ Len(SelMon(St).clients) = 3
    /\ ~ISVISIBLE(St, SelMon(St).clients[2])
    /\ Sel(St) = SelMon(St).clients[3]
    /\ Sel(focusstack(St, 1)) = SelMon(St).clients[1]

\* three visible clients: the next one is not the previous one
FocusCycleOfThree ==
    /\ Sel(St) # NULL
    /\ Len(VisibleList(St)) = 3
    /\ Sel(focusstack(St, 1)) # Sel(focusstack(St, -1))


(***************************************************************************)
(* C35: cleanup.                                                           *)
(***************************************************************************)
\* the loop of cleanup with a log of its unmanage calls: the window, and what
\* unmanage(client, 0) leaves of it on the server
RECURSIVE cleanupLog(_, _, _)
cleanupLog(s, i, log) ==
    IF i > Len(s.mons) THEN [s |-> s, log |-> log]
    ELSE IF s.mons[i].stack # <<>>
    THEN LET c == Head(s.mons[i].stack)
         IN  cleanupLog(unmanage(s, c, FALSE), i,
                        Append(log, [win |-> c, left |-> UnmanageWindow(s, c)]))
    ELSE cleanupLog(s, i + 1, log)

\* the focus stacks of the monitors from i on, one after the other
RECURSIVE StacksFrom(_, _)
StacksFrom(s, i) ==
    IF i > Len(s.mons) THEN <<>> ELSE s.mons[i].stack \o StacksFrom(s, i + 1)

CleanupDone(s) ==
    LET v == cleanupView(view(s, AllBits))
        l == cleanupLog(v, 1, <<>>)
    IN  /\ l.s = cleanupFrom(v, 1)
        /\ Managed(cleanup(s)) = {}
        /\ cleanup(s).mons = <<>>
        /\ [k \in 1 .. Len(l.log) |-> l.log[k].win] = StacksFrom(s, 1)
        /\ {l.log[k].win : k \in 1 .. Len(l.log)} = Managed(s)
        /\ Len(l.log) = Cardinality(Managed(s))
        /\ \A k \in 1 .. Len(l.log) : l.log[k].left.wmstate = "WithdrawnState"

\* C35: cleanup ends; it unmanages the clients monitor by monitor, each
\* monitor's from the head of its focus stack down; afterwards no client is
\* managed and no monitor is left, and every window that was managed has
\* been given the WM_STATE Withdrawn.
C35_Cleanup ==
    /\ [](mons # <<>> => CleanupDone(St))
    /\ [][(~Running /\ scr.exit = "none") =>
              (Managed(StAfter) = {} /\ mons' = <<>> /\ StAfter = mainexit(St))]_vars

\* quit has been pressed with clients on both monitors, the selected monitor
\* showing one tag only: cleanup is what happens next
C35_Witness ==
    /\ ~Running /\ scr.exit = "none"
    /\ Len(mons) = 2
    /\ \A k \in 1 .. 2 : mons[k].stack # <<>>
    /\ Cardinality(Managed(St)) = MaxWin


(***************************************************************************)
(* C36: the selected client of the selected monitor.                       *)
(***************************************************************************)
\* the selected monitor shows a client and has selected one that it shows
SelectedIfVisible(s) ==
    LET m == SelMon(s)
    IN  VisibleIn(s, m.clients) # <<>> =>
            /\ m.selected_client # NULL
            /\ InSeq(m.clients, m.selected_client)
            /\ ISVISIBLE(s, m.selected_client)

\* the second screen is gone and the root window has kept its size
Unplugged == [width |-> Display(2).width, height |-> Display(2).height,
              info |-> <<ScreenAt(1)>>]

\* after a ConfigureNotify of the root for display d
SelectedAfterConfigure(d) ==
    \A ptr \in Pointers(d.width, d.height) :
        SelectedIfVisible(configurenotify(St, [width |-> d.width, height |-> d.height],
                                          d.info, ptr))

\* the invariant in the states the handlers of the specification leave
SelectedInState == mons # <<>> => SelectedIfVisible(St)

\* C36: after every handler and bound command, if the selected monitor has a
\* visible client then its selected client is one of its visible clients;
\* also after a ConfigureNotify that removes a monitor.
C36_SelectedClient ==
    /\ SelectedInState
    /\ \A d \in Displays \cup {Unplugged} : SelectedAfterConfigure(d)


(***************************************************************************)
(* C37: a ConfigureRequest while the client is fullscreen.                 *)
(***************************************************************************)
\* setfullscreen(c, 1), the ConfigureRequest ev for c, setfullscreen(c, 0)
FullscreenRequestTrip(s, c, ev) ==
    setfullscreen(configurerequest(setfullscreen(s, c, TRUE), c, ev), c, FALSE)

\* the trip brings c back to the rectangle and border width it had
RestoredAfterRequest(s, c, ev) ==
    LET a == s.cl[c]
        b == FullscreenRequestTrip(s, c, ev).cl[c]
    IN  Rect(b) = Rect(a) /\ b.bw = a.bw

\* the request only asks for a border width
BorderOnly(ev) == "CWBorderWidth" \in ev.mask

\* C37: for a client that comes back from fullscreen unchanged when nothing
\* happens in between, a ConfigureRequest handled while it is fullscreen
\* changes nothing about that: leaving fullscreen restores the rectangle and
\* the border width it had before it entered.
C37_RequestWhileFullscreen ==
    \A c \in DOMAIN clients : \A ev \in Requests :
        (~clients[c].isfullscreen /\ SameLook(clients[c], FullscreenRoundTrip(St, c).cl[c]))
            => RestoredAfterRequest(St, c, ev)

\* the same for requests that only ask for a border width
BorderRequestWhileFullscreen ==
    \A c \in DOMAIN clients : \A ev \in {e \in Requests : BorderOnly(e)} :
        (~clients[c].isfullscreen /\ SameLook(clients[c], FullscreenRoundTrip(St, c).cl[c]))
            => RestoredAfterRequest(St, c, ev)


(***************************************************************************)
(* C38: arrange twice.                                                     *)
(***************************************************************************)
\* rectangle and border width of every client are the same in a and b
SameRects(a, b) ==
    /\ Managed(a) = Managed(b)
    /\ \A c \in Managed(a) :
           /\ Rect(b.cl[c]) = Rect(a.cl[c])
           /\ b.cl[c].bw = a.cl[c].bw /\ b.cl[c].xbw = a.cl[c].xbw

\* the monitors arrange is called for, and NULL for all of them
ArrangeArgs(s) == (1 .. Len(s.mons)) \cup {NULL}

\* the arrangers the claim names
Arrangers == {"tile", "monocle", "bstack", "bstackhoriz"}

ArrangeTwice(s, i) == SameRects(arrange(s, i), arrange(arrange(s, i), i))

\* s with layout l put into the active slot of the selected monitor and
\* nothing arranged yet
Relaid(s, l) == SetMon(s, s.selmon, [SelMon(s) EXCEPT !.lt[SelMon(s).sellt + 1] = l])

ArrangeTwiceAnyLayout ==
    \A i \in ArrangeArgs(St) : \A l \in LayoutArgs : ArrangeTwice(Relaid(St, l), i)


(***************************************************************************)
(* C39: what focus does to the lists.                                      *)
(***************************************************************************)
\* seq without c
Without(seq, c) == SelectSeq(seq, LAMBDA d : d # c)

\* r has the client lists of s, and the focus stacks of s except that t, if
\* it is a client, has moved to the head of the stack of its monitor
RaisedOnly(s, r, t) ==
    /\ Len(r.mons) = Len(s.mons)
    /\ \A k \in 1 .. Len(s.mons) :
           /\ r.mons[k].clients = s.mons[k].clients
           /\ r.mons[k].stack =
                  IF t # NULL /\ s.cl[t].mon = k
                  THEN <<t>> \o Without(s.mons[k].stack, t)
                  ELSE s.mons[k].stack

\* the arguments focus is called with
FocusArgs(s) == Managed(s) \cup {NULL}

\* the claim as it stands: the client that moves is the argument
C39_ArgumentRaised ==
    \A c \in Managed(St) : RaisedOnly(St, focus(St, c), c)

\* C39: focus(c) changes no client list; the one client it moves is the one
\* it selects, c if c is visible and otherwise the first visible client of
\* the selected monitor's focus stack: that client goes to the head of the
\* focus stack of its monitor, the others keep their order, and the focus
\* stacks of the other monitors stay as they are.  If it selects no client no
\* list changes.
C39_FocusFrame ==
    \A c \in FocusArgs(St) :
        LET r == focus(St, c)
        IN  /\ RaisedOnly(St, r, Sel(r))
            /\ (c # NULL /\ ISVISIBLE(St, c)) => Sel(r) = c
            /\ (c = NULL \/ ~ISVISIBLE(St, c)) => Sel(r) = FirstVisible(St, SelMon(St).stack)

\* two clients on the selected monitor, the second of the focus stack hidden:
\* focus of the hidden one selects the other and leaves the hidden one where
\* it is
C39_Witness ==
    /\ Len(SelMon(St).stack) = 2
    /\ ISVISIBLE(St, SelMon(St).stack[1])
    /\ ~ISVISIBLE(St, SelMon(St).stack[2])
    /\ Sel(focus(St, SelMon(St).stack[2])) = SelMon(St).stack[1]
    /\ focus(St, SelMon(St).stack[2]).mons[selmon].stack = SelMon(St).stack


(***************************************************************************)
(* C40: the two tagsets of a monitor.                                      *)
(***************************************************************************)
\* both tagsets of m are non-zero and within TAGMASK
TagsetsValid(m) ==
    \A k \in 1 .. 2 : m.tagset[k] # {} /\ m.tagset[k] \subseteq TAGMASK

\* the monitors other than the selected one are the same in s and r
OtherMonsKept(s, r) ==
    /\ Len(r.mons) = Len(s.mons)
    /\ \A k \in 1 .. Len(s.mons) : k # s.selmon => r.mons[k] = s.mons[k]

\* view(0) flips seltags and writes no tagset
ViewZeroSwaps(s) ==
    LET r == view(s, {})
    IN  /\ OtherMonsKept(s, r) /\ r.selmon = s.selmon
        /\ SelMon(r).tagset = SelMon(s).tagset
        /\ SelMon(r).seltags = 1 - SelMon(s).seltags
        /\ CurTags(SelMon(r)) = SelMon(s).tagset[(1 - SelMon(s).seltags) + 1]

\* toggleview of exactly the tags in view changes nothing
ToggleViewKeeps(s) == toggleview(s, CurTags(SelMon(s))) = s

\* toggleview of anything else stores the XOR in the current slot
ToggleViewStores(s, ui) ==
    LET r == toggleview(s, ui)
    IN  BitXor(CurTags(SelMon(s)), ui \cap TAGMASK) # {} =>
            /\ SelMon(r).seltags = SelMon(s).seltags
            /\ CurTags(SelMon(r)) = BitXor(CurTags(SelMon(s)), ui \cap TAGMASK)

\* C40: in every reachable state both tagsets of every monitor are non-zero
\* and within the tag mask; view(0) only flips which of the two is current,
\* and toggleview that would leave no tag in view changes nothing.
C40_Tagsets ==
    /\ \A k \in 1 .. Len(mons) : TagsetsValid(mons[k])
    /\ ViewZeroSwaps(St)
    /\ ToggleViewKeeps(St)
    /\ \A ui \in TagKeys \cup {AllBits} : ToggleViewStores(St, ui)
    /\ \A ui \in TagKeys \cup {{}, AllBits} : TagsetsValid(SelMon(view(St, ui)))

\* a _NET_ACTIVE_WINDOW message has brought the client on tag 9 into view on
\* the first monitor; the second monitor is selected and shows the first tag
\* only, which toggleview does not take away
C40_Witness ==
    /\ Len(mons) = 2
    /\ mons[1].seltags = 1 /\ mons[1].tagset = <<{0}, {8}>>
    /\ selmon = 2 /\ CurTags(mons[2]) = {0}
    /\ toggleview(St, {0}) = St
    /\ view(St, {}).mons[2].seltags = 1 - mons[2].seltags

=============================================================================
